---------------------------- MODULE Spec2Model ----------------------------
(***************************************************************************)
(* PiChainAnalysis: the source-fallback orchestrator (core/manager.py) and *)
(* the peeling-chain tracer (analysis/peeling_chain_analyzer.py) as state  *)
(* machines over a small block chain, a graph store and unreliable         *)
(* sources.                                                                *)
(***************************************************************************)
EXTENDS Integers, Sequences, FiniteSets, TLC

(***************************************************************************)
(* Bounds of the model.                                                    *)
(***************************************************************************)
\* hops after which the general tracer specification stops unrolling a walk
MaxHops == 3
\* hops after which the cyclic-walk specification stops unrolling a walk
MaxChain == 101

(***************************************************************************)
(* Domains.                                                                *)
(***************************************************************************)
TxIds == {"A", "B"}
None == "none"
Null == 0 - 1
\* the order in which outpoints are enumerated when a list is built
TxOrder == <<"A", "B">>

VARIABLES
    \* ---- the block chain the sources answer from
    vouts,              \* vouts[h]: the output values of h, by output index
    spender,            \* spender[h][i+1]: the hash spending h:i, or None
    vin,                \* vin[h]: the outpoints h spends, in order
    \* ---- graph store (Neo4j)
    neo_tx,             \* hashes with a Transaction node (and INPUT edges)
    neo_outs,           \* hashes whose output UTXO nodes and OUTPUT edges exist
    neo_spent,          \* outpoints whose UTXO node has is_spent and a spender
    \* ---- connectors
    rpc_connection,     \* BitcoinConnector.rpc_connection is not None
    \* ---- PeelingChainAnalyzer.analyze
    an_pc,              \* "idle", "walking", "post", "returned"
    start_hash,         \* the argument of analyze
    current_hash,
    chain_data,
    an_hop,             \* the hash the last iteration worked on
    an_calls,           \* the connector calls of the last iteration, in order
    an_coverage,        \* coverage["complete"] of the last iteration
    an_used,            \* where the last iteration took raw_tx from
    an_end,             \* how the loop was left
    an_fail,            \* a source call failed during the walk
    result,
    \* ---- Manager
    using_public_api,
    public_api_steps,
    pc,                 \* where the Manager's current operation stands
    op,                 \* "none", "store", "trace"
    tx_hash,            \* the argument of store_transaction_by_hash
    raw_src,            \* the source raw_tx came from: "none", "node", "api"
    in_k,               \* _process_inputs: the position of the current input
    ret,                \* what the last store_transaction_by_hash returned
    t_current,          \* trace_transaction_path: current_hash
    t_step,             \* trace_transaction_path: step
    t_max,              \* trace_transaction_path: max_steps, 0 for None
    t_i,                \* trace_transaction_path: the index of the vout loop
    t_highest,          \* trace_transaction_path: highest_value
    t_next,             \* trace_transaction_path: next_hash
    \* ---- history of the Manager's last step
    last_call,          \* the request the last step sent, and how it ended
    authorized,         \* the user said yes since the last return to the node
    written,            \* the hash the last store_transaction_by_hash wrote
    refusal,            \* the user's refusal that ended the operation
    \* ---- _detect_anomalies applied to a list of percentages
    detect_input,
    anomaly_result,
    fn_pc,              \* "idle", "input", "done"
    \* ---- ElectrsConnector: a spend lookup against an Electrum server
    el_server,          \* how the server behaves: connect, subscribe, history, delivery
    el_pc,              \* "idle", "connect", "raw", "subscribe", "history",
                        \* "unsubscribe", "candidate", "done"
    el_mode,            \* "fresh": get_spending_tx, "batch": batch_get_spending_txs
    el_list,            \* utxo_list; the one outpoint of get_spending_tx
    el_k,               \* the position in utxo_list
    el_ret,             \* what get_spending_tx returns
    el_results,         \* results of batch_get_spending_txs
    el_wire,            \* bytes the server wrote on the socket, not yet read
    el_history,         \* history
    el_j,               \* the position in history
    el_subs,            \* scripthashes subscribed on the socket, not unsubscribed
    el_failed,          \* a request of the lookup failed
    el_fetched,         \* hashes requested by blockchain.transaction.get
    el_last,            \* the last request: what it returned, what the server answered
    fresh_results,      \* what get_spending_tx returned, by outpoint
    el_log,             \* the requests the operation sent so far, in order
    request_id,         \* ElectrsConnector.request_id
    el_ids,             \* the ids of the operation's Electrum requests, in order
    el_out,             \* requests sent on the socket whose reply was not read
    \* ---- one call on a connector (BitcoinConnector, PublicApiConnector)
    cn_call,            \* the method, its argument and how the remote side answers
    cn_value,           \* what the method returned, and whether it sent a request
    cn_pc,              \* "idle", "input", "done"
    \* ---- requests to the public API in time, in ticks
    api_since,          \* ticks since the last request to the public API
    fan_since,          \* per FanInAnalyzer: ticks since its _last_api_call
    api_gap,            \* ticks between the last two requests to the public API
    api_caller,         \* who sent the last request: Null, 0 for the Manager, 1, 2
    \* ---- FanOutAnalyzer._analyze_distribution_uniformity applied to values
    unif_input,
    unif_result,
    unif_pc,            \* "idle", "input", "done"
    \* ---- several store_transaction_by_hash calls on one Manager at a time
    th_pc,              \* th_pc[t]: where the call of thread t stands
    th_loaded,          \* th_loaded[t]: public_api_steps as t read it for += 1
    th_ops,             \* the calls started
    th_counted,         \* the += 1 executed since public_api_steps was last set to 0
    \* ---- one iteration of analyze on the outputs of a resolved transaction
    peel_input,         \* raw_tx['vout']: the values, Missing for an output without
    peel_result,        \* what the iteration did
    peel_pc             \* "idle", "input", "done"

worldVars == <<vouts, spender, vin, rpc_connection>>
neoVars == <<neo_tx, neo_outs, neo_spent>>
anVars == <<an_pc, start_hash, current_hash, chain_data, an_hop, an_calls, an_coverage,
            an_used, an_end, an_fail, result>>
srcVars == <<using_public_api, public_api_steps>>
storeVars == <<tx_hash, raw_src, in_k>>
traceVars == <<t_current, t_step, t_max, t_i, t_highest, t_next>>
mgrVars == <<srcVars, pc, op, storeVars, ret, traceVars, last_call, authorized,
             written, refusal>>
fnVars == <<detect_input, anomaly_result, fn_pc>>
elVars == <<el_server, el_pc, el_mode, el_list, el_k, el_ret, el_results, el_wire,
            el_history, el_j, el_subs, el_failed, el_fetched, el_last, fresh_results,
            el_log, request_id, el_ids, el_out>>
cnVars == <<cn_call, cn_value, cn_pc>>
rtVars == <<api_since, fan_since, api_gap, api_caller>>
unifVars == <<unif_input, unif_result, unif_pc>>
thVars == <<th_pc, th_loaded, th_ops, th_counted>>
peelVars == <<peel_input, peel_result, peel_pc>>
otherVars == <<fnVars, elVars, cnVars, rtVars, unifVars, thVars, peelVars>>
vars == <<worldVars, neoVars, anVars, mgrVars, otherVars>>

(***************************************************************************)
(* The block chain.                                                        *)
(***************************************************************************)
OutIdx(h) == 0 .. (Len(vouts[h]) - 1)

SpenderOf(h, i) == IF i \in OutIdx(h) THEN spender[h][i + 1] ELSE None

RECURSIVE OutpointsFrom(_, _)
OutpointsFrom(k, i) ==
    IF k > Len(TxOrder) THEN << >>
    ELSE IF i >= Len(vouts[TxOrder[k]]) THEN OutpointsFrom(k + 1, 0)
    ELSE << <<TxOrder[k], i>> >> \o OutpointsFrom(k, i + 1)

AllOutpoints == OutpointsFrom(1, 0)

IsInputOf(o, h) == SpenderOf(o[1], o[2]) = h

\* the inputs of h: the outpoints h spends (none: h is a coinbase transaction)
InputsOf(h) == SelectSeq(AllOutpoints, LAMBDA o : IsInputOf(o, h))

Vin(h) == vin[h]

RECURSIVE SumSeq(_)
SumSeq(s) == IF s = << >> THEN 0 ELSE s[1] + SumSeq(Tail(s))

\* the index of the output of largest value, the last one on ties
RealChange(vs) ==
    CHOOSE i \in 1 .. Len(vs) :
        /\ \A j \in 1 .. Len(vs) : vs[j] <= vs[i]
        /\ \A j \in (i + 1) .. Len(vs) : vs[j] < vs[i]

(***************************************************************************)
(* Graph store reads (connectors/neo4j_connector.py, core/query.py).       *)
(***************************************************************************)
\* the orders in which the store may return the outputs of h: the collect()
\* of GET_FULL_TRANSACTION_DATA has no ORDER BY
Perms(h) ==
    IF h \in neo_tx /\ h \in neo_outs
    THEN {p \in [1 .. Len(vouts[h]) -> OutIdx(h)] :
              \A a, b \in 1 .. Len(vouts[h]) : a # b => p[a] # p[b]}
    ELSE {<< >>}

check_transaction_exists(h) == h \in neo_tx

get_transaction_outputs(h) ==
    IF h \in neo_tx /\ h \in neo_outs THEN [i \in 1 .. Len(vouts[h]) |-> i - 1]
    ELSE << >>

get_transaction_inputs(h) == IF h \in neo_tx THEN Vin(h) ELSE << >>

\* the value property of the UTXO node of outpoint o; Null when the node was
\* only MERGEd by UPDATE_SPENT_UTXO, which sets no value
UtxoValue(o) == IF o[1] \in neo_outs THEN vouts[o[1]][o[2] + 1] ELSE Null

find_spending_transaction(h, i) ==
    IF <<h, i>> \in neo_spent THEN SpenderOf(h, i) ELSE None

safe_float_conversion(value) == IF value = Null THEN 0 ELSE value

check_neo4j_transaction_coverage(h) ==
    IF ~check_transaction_exists(h) THEN [exists |-> FALSE, complete |-> FALSE]
    ELSE [exists |-> TRUE,
          complete |-> Len(get_transaction_outputs(h)) > 0
                       /\ Len(get_transaction_inputs(h)) >= 0]

NoTx == [txid |-> None, src |-> "none", vin |-> << >>, vout |-> << >>]

\* a store read that never returns a record
get_transaction_from_neo4j_absent(h, perm) == NoTx

\* formatted_tx built from the store's record, outputs in the returned order
\* perm and numbered by their position in it
_get_transaction_from_neo4j(h, perm) ==
    IF h \notin neo_tx THEN NoTx
    ELSE [txid |-> h,
          src |-> "neo4j",
          vin |-> [k \in 1 .. Len(Vin(h)) |->
                     [txid |-> Vin(h)[k][1], vout |-> Vin(h)[k][2],
                      has_value |-> TRUE,
                      value |-> safe_float_conversion(UtxoValue(Vin(h)[k]))]],
          vout |-> [k \in 1 .. Len(perm) |->
                     [n |-> k - 1,
                      value |-> safe_float_conversion(UtxoValue(<<h, perm[k]>>)),
                      utxo_id |-> <<h, perm[k]>>]]]

\* a lookup of the next transaction that does not consult the graph store
find_next_skips_store(h, output_index) == None

_find_next_transaction_neo4j(h, output_index) ==
    find_spending_transaction(h, output_index)

(***************************************************************************)
(* Local node and Electrum server, as the tracer sees them.                *)
(***************************************************************************)
\* a get_transaction that asks the node whatever the handshake gave
btc_get_transaction_unchecked(h, ok) ==
    IF ok /\ h \in TxIds
    THEN [txid |-> h,
          src |-> "node",
          vin |-> [k \in 1 .. Len(Vin(h)) |->
                     [txid |-> Vin(h)[k][1], vout |-> Vin(h)[k][2],
                      has_value |-> FALSE, value |-> Null]],
          vout |-> [k \in 1 .. Len(vouts[h]) |->
                     [n |-> k - 1, value |-> vouts[h][k],
                      utxo_id |-> <<h, k - 1>>]]]
    ELSE NoTx

\* getrawtransaction(txid, 1): ok is whether the RPC call answered
btc_get_transaction(h, ok) ==
    IF rpc_connection /\ ok /\ h \in TxIds
    THEN [txid |-> h,
          src |-> "node",
          vin |-> [k \in 1 .. Len(Vin(h)) |->
                     [txid |-> Vin(h)[k][1], vout |-> Vin(h)[k][2],
                      has_value |-> FALSE, value |-> Null]],
          vout |-> [k \in 1 .. Len(vouts[h]) |->
                     [n |-> k - 1, value |-> vouts[h][k],
                      utxo_id |-> <<h, k - 1>>]]]
    ELSE NoTx

\* ElectrsConnector.get_spending_tx: ok is whether the node and the Electrum
\* server answered every request of the lookup
electrs_get_spending_tx(h, vout_index, ok) ==
    IF rpc_connection /\ ok /\ h \in TxIds /\ vout_index \in OutIdx(h)
    THEN SpenderOf(h, vout_index)
    ELSE None

(***************************************************************************)
(* PeelingChainAnalyzer (analysis/peeling_chain_analyzer.py).              *)
(***************************************************************************)
\* sorted(vouts, key=value): stable, ascending
RECURSIVE sorted_by_value(_)
sorted_by_value(s) ==
    IF Len(s) <= 1 THEN s
    ELSE LET rest == sorted_by_value(SubSeq(s, 1, Len(s) - 1))
             x == s[Len(s)]
             p == Cardinality({k \in 1 .. Len(rest) : rest[k].value <= x.value})
         IN  SubSeq(rest, 1, p) \o <<x>> \o SubSeq(rest, p + 1, Len(rest))

NoPair == << >>

\* a classification that accepts any transaction with an output
identify_from_one_output(raw_tx) ==
    IF Len(raw_tx.vout) < 1 THEN NoPair
    ELSE LET sorted_vouts == sorted_by_value(raw_tx.vout)
         IN  <<sorted_vouts[1], sorted_vouts[Len(sorted_vouts)]>>

\* a classification that takes the pair from a descending sort
identify_swapped(raw_tx) ==
    IF Len(raw_tx.vout) # 2 THEN NoPair
    ELSE LET sorted_vouts == sorted_by_value(raw_tx.vout)
         IN  <<sorted_vouts[2], sorted_vouts[1]>>

\* the value of an output that has no 'value' key
Missing == 0 - 2

\* x['value'] of line 206 raised for an output without a value
KeyError == <<"KeyError">>

\* a classification that takes the two outputs in the order given
identify_unsorted(raw_tx) ==
    IF Len(raw_tx.vout) # 2 THEN NoPair
    ELSE IF \E k \in 1 .. 2 : raw_tx.vout[k].value = Missing THEN KeyError
    ELSE <<raw_tx.vout[1], raw_tx.vout[2]>>

\* <<peeled_output, change_output>>, or NoPair for (None, None)
_identify_peeling_outputs(raw_tx) ==
    IF Len(raw_tx.vout) # 2 THEN NoPair
    ELSE IF \E k \in 1 .. 2 : raw_tx.vout[k].value = Missing THEN KeyError
    ELSE LET sorted_vouts == sorted_by_value(raw_tx.vout)
         IN  <<sorted_vouts[1], sorted_vouts[2]>>

\* got: the inputs whose source transaction the node returned
RECURSIVE InputSum(_, _, _)
InputSum(ins, k, got) ==
    IF k > Len(ins) THEN 0
    ELSE (IF ins[k].has_value THEN safe_float_conversion(ins[k].value)
          ELSE IF k \in got /\ ins[k].vout < Len(vouts[ins[k].txid])
               THEN safe_float_conversion(vouts[ins[k].txid][ins[k].vout + 1])
               ELSE 0)
         + InputSum(ins, k + 1, got)

_get_total_input_value(raw_tx, got) == InputSum(raw_tx.vin, 1, got)

\* the node calls _get_total_input_value makes: one per input without a value
InputCalls(raw_tx) ==
    [k \in 1 .. Len(SelectSeq(raw_tx.vin, LAMBDA v : ~v.has_value)) |->
        <<"btc.get_transaction",
          SelectSeq(raw_tx.vin, LAMBDA v : ~v.has_value)[k].txid>>]

\* a percentage that counts a step without input value as peeled in full
percentage_full_without_input(peeled_value, total_input) ==
    IF total_input > 0 THEN <<peeled_value * 100, total_input>> ELSE <<100, 1>>

\* peeled_value / total_input * 100 as an exact fraction <<num, den>>
Percentage(peeled_value, total_input) ==
    IF total_input > 0 THEN <<peeled_value * 100, total_input>> ELSE <<0, 1>>

PeelStep(h, total_input, pair) ==
    [tx_hash |-> h,
     input_value |-> total_input,
     peeled_value |-> safe_float_conversion(pair[1].value),
     change_value |-> safe_float_conversion(pair[2].value),
     peeled_percentage |->
         Percentage(safe_float_conversion(pair[1].value), total_input)]

analyze_start ==
    /\ an_pc = "idle"
    /\ pc = "idle"
    /\ \E h \in TxIds :
          /\ start_hash' = h
          /\ current_hash' = h
          /\ an_pc' = "walking"
    /\ chain_data' = << >>
    /\ UNCHANGED <<an_hop, an_calls, an_coverage, an_used, an_end, an_fail,
                   result, worldVars, otherVars, neoVars, mgrVars>>

\* one iteration of the while loop, lines 290-353
analyze_loop(cap) ==
    /\ an_pc = "walking"
    /\ current_hash # None
    /\ Len(chain_data) < cap
    /\ \E perm \in Perms(current_hash), node_ok \in BOOLEAN, el_ok \in BOOLEAN :
        LET h == current_hash
            coverage == check_neo4j_transaction_coverage(h)
            neo_raw == _get_transaction_from_neo4j(h, perm)
            from_neo == neo_raw.txid # None
            raw_tx == IF from_neo THEN neo_raw ELSE btc_get_transaction(h, node_ok)
            resolve_calls ==
                << <<"neo4j.get_full_transaction_data", h>> >>
                \o (IF from_neo THEN << >> ELSE << <<"btc.get_transaction", h>> >>)
            pair == _identify_peeling_outputs(raw_tx)
        IN
        /\ an_hop' = h
        /\ an_coverage' = coverage.complete
        /\ an_used' = raw_tx.src
        /\ IF raw_tx.txid = None
           THEN /\ an_pc' = "post"
                /\ an_end' = "NoData"
                /\ an_fail' = TRUE
                /\ an_calls' = resolve_calls
                /\ UNCHANGED <<current_hash, chain_data>>
           ELSE IF pair = NoPair
           THEN /\ an_pc' = "post"
                /\ an_end' = "NotPeelingShaped"
                /\ an_calls' = resolve_calls
                /\ UNCHANGED <<current_hash, chain_data, an_fail>>
           ELSE \E got \in SUBSET {k \in 1 .. Len(raw_tx.vin) : ~raw_tx.vin[k].has_value} :
                LET total_input == _get_total_input_value(raw_tx, got)
                    change_output_index == pair[2].n
                    neo_next == _find_next_transaction_neo4j(h, change_output_index)
                    next_tx == IF neo_next # None THEN neo_next
                               ELSE electrs_get_spending_tx(h, change_output_index, el_ok)
                    spend_calls ==
                        << <<"neo4j.find_spending_transaction", h, change_output_index>> >>
                        \o (IF neo_next # None THEN << >>
                            ELSE << <<"electrs.get_spending_tx", h, change_output_index>> >>)
                IN
                /\ chain_data' = Append(chain_data, PeelStep(h, total_input, pair))
                /\ an_calls' = resolve_calls \o InputCalls(raw_tx) \o spend_calls
                /\ an_fail' = (an_fail
                               \/ got # {k \in 1 .. Len(raw_tx.vin) : ~raw_tx.vin[k].has_value}
                               \/ (neo_next = None /\ ~el_ok))
                /\ current_hash' = next_tx
                /\ an_pc' = IF next_tx # None THEN "walking" ELSE "post"
                /\ an_end' = IF next_tx # None THEN an_end ELSE "ChainEnd"
    /\ UNCHANGED <<start_hash, result, worldVars, otherVars, neoVars, mgrVars>>

RECURSIVE SumField(_, _)
SumField(s, f) == IF s = << >> THEN 0 ELSE s[1][f] + SumField(Tail(s), f)

\* sorted(a): ascending
RECURSIVE SortInts(_)
SortInts(a) ==
    IF Len(a) <= 1 THEN a
    ELSE LET rest == SortInts(SubSeq(a, 1, Len(a) - 1))
             x == a[Len(a)]
             p == Cardinality({k \in 1 .. Len(rest) : rest[k] <= x})
         IN  SubSeq(rest, 1, p) \o <<x>> \o SubSeq(rest, p + 1, Len(rest))

\* 4 * np.percentile(a, 25 * quarters): linear interpolation between the two
\* order statistics around the rank quarters * (n - 1) / 4
Percentile4(a, quarters) ==
    LET x == SortInts(a)
        rank4 == quarters * (Len(a) - 1)
        i == rank4 \div 4
        r == rank4 % 4
    IN  IF r = 0 THEN 4 * x[i + 1]
        ELSE 4 * x[i + 1] + r * (x[i + 2] - x[i + 1])

\* the 0-based positions at which flag holds, ascending
Positions(a, flag(_)) ==
    SelectSeq([k \in 1 .. Len(a) |-> k - 1], LAMBDA i : flag(a[i + 1]))

\* a detection that also flags the values lying on a bound
detect_anomalies_on_bounds(percentages) ==
    IF Len(percentages) < 4 THEN [anomalies |-> << >>, anomaly_count |-> 0]
    ELSE LET q1 == Percentile4(percentages, 1)
             q3 == Percentile4(percentages, 3)
             iqr == q3 - q1
             lower_bound == 2 * q1 - 3 * iqr
             upper_bound == 2 * q3 + 3 * iqr
             anomalies == Positions(percentages,
                              LAMBDA v : 8 * v <= lower_bound \/ 8 * v >= upper_bound)
         IN  [anomalies |-> anomalies, anomaly_count |-> Len(anomalies)]

\* the IQR method; q1, q3 and iqr are held times 4, the bounds times 8
_detect_anomalies(percentages) ==
    IF Len(percentages) < 4 THEN [anomalies |-> << >>, anomaly_count |-> 0]
    ELSE LET q1 == Percentile4(percentages, 1)
             q3 == Percentile4(percentages, 3)
             iqr == q3 - q1
             lower_bound == 2 * q1 - 3 * iqr
             upper_bound == 2 * q3 + 3 * iqr
             anomalies == Positions(percentages,
                              LAMBDA v : 8 * v < lower_bound \/ 8 * v > upper_bound)
         IN  [anomalies |-> anomalies, anomaly_count |-> Len(anomalies)]

RECURSIVE Gcd(_, _)
Gcd(a, b) == IF b = 0 THEN a ELSE Gcd(b, a % b)

\* the least common multiple of the denominators of the chain's percentages
RECURSIVE CommonDen(_)
CommonDen(chain) ==
    IF chain = << >> THEN 1
    ELSE LET den == chain[1].peeled_percentage[2]
             rest == CommonDen(Tail(chain))
         IN  (den \div Gcd(den, rest)) * rest

\* the peeled percentages of the chain over their common denominator
CommonPercentages(chain) ==
    [k \in 1 .. Len(chain) |->
        chain[k].peeled_percentage[1]
            * (CommonDen(chain) \div chain[k].peeled_percentage[2])]

\* the result without an entry
NoAnalytics == [x \in {} |-> 0]

\* an analysis that reports nothing for a chain too short for the detection
analyze_patterns_skips_short(chain) ==
    IF Len(chain) < 4 THEN NoAnalytics
    ELSE [anomaly_detection |-> _detect_anomalies(CommonPercentages(chain))]

_analyze_peeling_patterns(chain) ==
    IF chain = << >> THEN NoAnalytics
    ELSE [anomaly_detection |-> _detect_anomalies(CommonPercentages(chain))]

_calculate_metrics(chain) ==
    IF chain = << >>
    THEN [chain_length |-> 0, total_peeled_value |-> 0,
          advanced_analytics |-> NoAnalytics]
    ELSE [chain_length |-> Len(chain),
          total_peeled_value |-> SumField(chain, "peeled_value"),
          advanced_analytics |-> _analyze_peeling_patterns(chain)]

\* lines 355-358: the metrics and the chain are returned
analyze_return ==
    /\ an_pc = "post"
    /\ result' = [metrics |-> _calculate_metrics(chain_data), chain |-> chain_data]
    /\ an_pc' = "returned"
    /\ UNCHANGED <<start_hash, current_hash, chain_data, an_hop, an_calls,
                   an_coverage, an_used, an_end, an_fail, worldVars, otherVars, neoVars,
                   mgrVars>>

\* main.py lines 39-43: the results are printed and the analyzer is dropped
print_results ==
    /\ an_pc = "returned"
    /\ an_pc' = "idle"
    /\ start_hash' = None
    /\ current_hash' = None
    /\ chain_data' = << >>
    /\ an_hop' = None
    /\ an_calls' = << >>
    /\ an_coverage' = FALSE
    /\ an_used' = "none"
    /\ an_end' = ""
    /\ an_fail' = FALSE
    /\ result' = [metrics |-> _calculate_metrics(<< >>), chain |-> << >>]
    /\ UNCHANGED <<worldVars, otherVars, neoVars, mgrVars>>

(***************************************************************************)
(* Manager (core/manager.py): source selection.                            *)
(***************************************************************************)
\* number of public-API operations after which the node is probed again
RetrySteps == 5

\* hashes a user may type: the chain's transactions and one the chain lacks
HashArgs == TxIds \cup {"X"}

ApiCalls == {"api.get_transaction", "api.get_block_height", "api.get_spending_tx"}

NoCall == [name |-> "none", outcome |-> "none"]
Call(n, o) == [name |-> n, outcome |-> o]

NoRefusal == [at |-> "none", tx |-> None, steps |-> 0, written |-> None]

\* how BitcoinConnector.get_transaction(h) can end
NodeOutcomes(h) ==
    IF ~rpc_connection THEN {"fail"}
    ELSE IF h \in TxIds THEN {"ok", "fail"} ELSE {"notfound", "fail"}

\* how PublicApiConnector.get_transaction(h) can end
ApiOutcomes(h) == IF h \in TxIds THEN {"ok", "fail"} ELSE {"notfound", "fail"}

\* how a spend lookup can end, by Electrum or by the public API
SpendOutcomes(h, i) == {IF SpenderOf(h, i) # None THEN "spent" ELSE "unspent", "fail"}

\* a recovery attempt that leaves the counter alone when the probe fails
try_return_keeps_counter(probe_ok) ==
    IF using_public_api /\ public_api_steps >= RetrySteps
    THEN IF rpc_connection
         THEN IF probe_ok
              THEN [using |-> FALSE, steps |-> 0,
                    call |-> Call("rpc.getblockchaininfo", "ok")]
              ELSE [using |-> TRUE, steps |-> public_api_steps,
                    call |-> Call("rpc.getblockchaininfo", "fail")]
         ELSE [using |-> TRUE, steps |-> 0, call |-> Call("no_connection", "none")]
    ELSE [using |-> using_public_api, steps |-> public_api_steps, call |-> NoCall]

\* a recovery attempt that probes the node whether or not the connector holds
\* a connection
try_return_reconnects(probe_ok) ==
    IF using_public_api /\ public_api_steps >= RetrySteps
    THEN IF probe_ok
         THEN [using |-> FALSE, steps |-> 0,
               call |-> Call("rpc.getblockchaininfo", "ok")]
         ELSE [using |-> TRUE, steps |-> 0,
               call |-> Call("rpc.getblockchaininfo", "fail")]
    ELSE [using |-> using_public_api, steps |-> public_api_steps, call |-> NoCall]

\* a return to the node that leaves the counter as it is
try_return_without_reset(probe_ok) ==
    IF using_public_api /\ public_api_steps >= RetrySteps
    THEN IF rpc_connection
         THEN IF probe_ok
              THEN [using |-> FALSE, steps |-> public_api_steps,
                    call |-> Call("rpc.getblockchaininfo", "ok")]
              ELSE [using |-> TRUE, steps |-> 0,
                    call |-> Call("rpc.getblockchaininfo", "fail")]
         ELSE [using |-> TRUE, steps |-> 0, call |-> Call("no_connection", "none")]
    ELSE [using |-> using_public_api, steps |-> public_api_steps, call |-> NoCall]

\* the new source state and the request made by _try_return_to_local_node
_try_return_to_local_node(probe_ok) ==
    IF using_public_api /\ public_api_steps >= RetrySteps
    THEN IF rpc_connection
         THEN IF probe_ok
              THEN [using |-> FALSE, steps |-> 0,
                    call |-> Call("rpc.getblockchaininfo", "ok")]
              ELSE [using |-> TRUE, steps |-> 0,
                    call |-> Call("rpc.getblockchaininfo", "fail")]
         ELSE [using |-> TRUE, steps |-> 0, call |-> Call("no_connection", "none")]
    ELSE [using |-> using_public_api, steps |-> public_api_steps, call |-> NoCall]

\* the operation leaves worldVars, the tracer and (unless it writes) the store
MgrFrame == UNCHANGED <<worldVars, otherVars, anVars>>

\* store_transaction_by_hash returns r to its caller
StoreReturns(r) ==
    /\ ret' = r
    /\ pc' = IF op = "trace" THEN "t_stored" ELSE "done"

\* lines 90-94: a store request from the menu, up to the recovery attempt
store_transaction_by_hash ==
    /\ pc = "idle"
    /\ an_pc = "idle"
    /\ \E h \in HashArgs, probe_ok \in BOOLEAN :
          LET r == _try_return_to_local_node(probe_ok) IN
          /\ tx_hash' = h
          /\ using_public_api' = r.using
          /\ public_api_steps' = r.steps
          /\ authorized' = (authorized /\ r.using)
          /\ last_call' = r.call
    /\ op' = "store"
    /\ pc' = "s_fetch"
    /\ raw_src' = "none"
    /\ in_k' = 0
    /\ ret' = None
    /\ written' = None
    /\ refusal' = NoRefusal
    /\ UNCHANGED <<traceVars, neoVars>>
    /\ MgrFrame

\* a local fetch whose failure switches to the public API without asking
store_local_fetch_unasked ==
    /\ pc = "s_fetch"
    /\ ~using_public_api
    /\ \E o \in NodeOutcomes(tx_hash) :
          /\ last_call' = Call("rpc.getrawtransaction", o)
          /\ IF o = "ok"
             THEN raw_src' = "node" /\ pc' = "s_height"
                  /\ using_public_api' = using_public_api
             ELSE raw_src' = raw_src /\ pc' = "s_api"
                  /\ using_public_api' = TRUE
    /\ UNCHANGED <<public_api_steps, op, tx_hash, in_k, ret, traceVars, authorized,
                   written, refusal, neoVars>>
    /\ MgrFrame

\* lines 96-99: the node is asked for the transaction
store_local_fetch ==
    /\ pc = "s_fetch"
    /\ ~using_public_api
    /\ \E o \in NodeOutcomes(tx_hash) :
          /\ last_call' = Call("rpc.getrawtransaction", o)
          /\ IF o = "ok"
             THEN raw_src' = "node" /\ pc' = "s_height"
             ELSE raw_src' = raw_src /\ pc' = "s_ask"
    /\ UNCHANGED <<srcVars, op, tx_hash, in_k, ret, traceVars, authorized, written,
                   refusal, neoVars>>
    /\ MgrFrame

\* a prompt whose refusal still switches the Manager to the public API
store_ask_demotes ==
    /\ pc = "s_ask"
    /\ \E yes \in BOOLEAN :
          /\ last_call' = Call("ask", IF yes THEN "yes" ELSE "no")
          /\ using_public_api' = TRUE
          /\ IF yes
             THEN /\ authorized' = TRUE
                  /\ pc' = "s_api"
                  /\ UNCHANGED <<ret, refusal>>
             ELSE /\ StoreReturns(None)
                  /\ refusal' = [at |-> "store", tx |-> tx_hash,
                                 steps |-> public_api_steps, written |-> written]
                  /\ UNCHANGED authorized
    /\ UNCHANGED <<public_api_steps, op, storeVars, traceVars, written, neoVars>>
    /\ MgrFrame

\* lines 100-106: _ask_user_fallback_permission for the transaction itself
store_ask ==
    /\ pc = "s_ask"
    /\ \E yes \in BOOLEAN :
          /\ last_call' = Call("ask", IF yes THEN "yes" ELSE "no")
          /\ IF yes
             THEN /\ using_public_api' = TRUE
                  /\ authorized' = TRUE
                  /\ pc' = "s_api"
                  /\ UNCHANGED <<ret, refusal>>
             ELSE /\ StoreReturns(None)
                  /\ refusal' = [at |-> "store", tx |-> tx_hash,
                                 steps |-> public_api_steps, written |-> written]
                  /\ UNCHANGED <<using_public_api, authorized>>
    /\ UNCHANGED <<public_api_steps, op, storeVars, traceVars, written, neoVars>>
    /\ MgrFrame

\* lines 109-115: the public API is asked for the transaction
store_api_fetch ==
    /\ pc \in {"s_fetch", "s_api"}
    /\ using_public_api
    /\ \E o \in ApiOutcomes(tx_hash) :
          /\ last_call' = Call("api.get_transaction", o)
          /\ IF o = "ok"
             THEN /\ public_api_steps' = public_api_steps + 1
                  /\ raw_src' = "api"
                  /\ pc' = "s_height"
                  /\ ret' = ret
             ELSE /\ StoreReturns(None)
                  /\ UNCHANGED <<public_api_steps, raw_src>>
    /\ UNCHANGED <<using_public_api, op, tx_hash, in_k, traceVars, authorized,
                   written, refusal, neoVars>>
    /\ MgrFrame

\* the outpoint the public API reports as the input of a coinbase transaction
ZeroOutpoint == <<"0", Null>>

\* raw_tx['vin'] without the entries _process_inputs skips: the node marks a
\* coinbase input with a 'coinbase' key, the public API's formatted input
\* carries the null hash and no mark
InputList(h, src) ==
    IF Vin(h) # << >> THEN Vin(h)
    ELSE IF src = "api" THEN <<ZeroOutpoint>> ELSE << >>

\* lines 119-144: the block height is looked up, then the inputs are due
store_block_height ==
    /\ pc = "s_height"
    /\ \E o \in {"ok", "fail"} :
          last_call' = Call(IF using_public_api THEN "api.get_block_height"
                            ELSE "rpc.getblockheader", o)
    /\ IF InputList(tx_hash, raw_src) = << >>
       THEN pc' = "s_write" /\ in_k' = in_k
       ELSE pc' = "s_input" /\ in_k' = 1
    /\ UNCHANGED <<srcVars, op, tx_hash, raw_src, ret, traceVars, authorized,
                   written, refusal, neoVars>>
    /\ MgrFrame

\* the hash of the transaction that created input in_k
SourceHash == InputList(tx_hash, raw_src)[in_k][1]

\* the input was resolved: the next one is due, or the write
InputDone ==
    IF in_k = Len(InputList(tx_hash, raw_src))
    THEN pc' = "s_write" /\ in_k' = in_k
    ELSE pc' = "s_input" /\ in_k' = in_k + 1

\* the output index of input in_k
SourceIndex == InputList(tx_hash, raw_src)[in_k][2]

\* a source transaction that is taken with whatever output index the input names
input_resolved_unchecked == InputDone /\ ret' = ret

\* _process_inputs lines 307-314: the source transaction was fetched; an
\* output index beyond its outputs ends the operation without a result
InputResolved ==
    IF SourceIndex >= Len(vouts[SourceHash])
    THEN StoreReturns(None) /\ in_k' = in_k
    ELSE InputDone /\ ret' = ret

\* _process_inputs lines 280-284, 298-309: the current source is asked for the
\* transaction that created the input
process_input_fetch ==
    /\ pc = "s_input"
    /\ IF using_public_api
       THEN \E o \in ApiOutcomes(SourceHash) :
               /\ last_call' = Call("api.get_transaction", o)
               /\ IF o = "ok"
                  THEN /\ public_api_steps' = public_api_steps + 1
                       /\ InputResolved
                  ELSE /\ StoreReturns(None)
                       /\ UNCHANGED <<public_api_steps, in_k>>
       ELSE \E o \in NodeOutcomes(SourceHash) :
               /\ last_call' = Call("rpc.getrawtransaction", o)
               /\ IF o = "ok"
                  THEN InputResolved
                  ELSE pc' = "s_in_ask" /\ in_k' = in_k /\ ret' = ret
               /\ UNCHANGED public_api_steps
    /\ UNCHANGED <<using_public_api, op, tx_hash, raw_src, traceVars, authorized,
                   written, refusal, neoVars>>
    /\ MgrFrame

\* _process_inputs lines 287-295: _ask_user_fallback_permission for an input
process_input_ask ==
    /\ pc = "s_in_ask"
    /\ \E yes \in BOOLEAN :
          /\ last_call' = Call("ask", IF yes THEN "yes" ELSE "no")
          /\ IF yes
             THEN /\ using_public_api' = TRUE
                  /\ authorized' = TRUE
                  /\ pc' = "s_in_api"
                  /\ UNCHANGED <<ret, refusal>>
             ELSE /\ StoreReturns(None)
                  /\ refusal' = [at |-> "inputs", tx |-> tx_hash,
                                 steps |-> public_api_steps, written |-> written]
                  /\ UNCHANGED <<using_public_api, authorized>>
    /\ UNCHANGED <<public_api_steps, op, storeVars, traceVars, written, neoVars>>
    /\ MgrFrame

\* _process_inputs lines 291, 298-309: the public API is asked for the input
process_input_api ==
    /\ pc = "s_in_api"
    /\ \E o \in ApiOutcomes(SourceHash) :
          /\ last_call' = Call("api.get_transaction", o)
          /\ IF o = "ok"
             THEN /\ public_api_steps' = public_api_steps + 1
                  /\ InputResolved
             ELSE /\ StoreReturns(None)
                  /\ UNCHANGED <<public_api_steps, in_k>>
    /\ UNCHANGED <<using_public_api, op, tx_hash, raw_src, traceVars, authorized,
                   written, refusal, neoVars>>
    /\ MgrFrame

\* the outpoints of h
OutpointsOf(h) == {<<h, i>> : i \in OutIdx(h)}

ToSet(s) == {s[k] : k \in 1 .. Len(s)}

\* lines 146-154: Neo4jConnector.store_transaction_info writes the
\* Transaction node, marks every input's UTXO spent and (re)creates the
\* outputs unspent; raw_tx is returned
store_write ==
    /\ pc = "s_write"
    /\ neo_tx' = neo_tx \cup {tx_hash}
    /\ neo_outs' = neo_outs \cup {tx_hash}
    /\ neo_spent' = (neo_spent \cup ToSet(InputList(tx_hash, raw_src)))
                        \ OutpointsOf(tx_hash)
    /\ written' = tx_hash
    /\ last_call' = Call("neo4j.store_transaction_info", "ok")
    /\ StoreReturns("raw_tx")
    /\ UNCHANGED <<srcVars, op, storeVars, traceVars, authorized, refusal>>
    /\ MgrFrame

(***************************************************************************)
(* Manager.trace_transaction_path.                                         *)
(***************************************************************************)
\* steps after which an unlimited trace (max_steps None) is no longer unrolled
MaxTraceSteps == 3

\* the values max_steps takes; 0 stands for None
MaxStepsArgs == {0, 1, 2}

\* lines 161-163: a trace request from the menu
trace_transaction_path ==
    /\ pc = "idle"
    /\ an_pc = "idle"
    /\ \E h \in HashArgs, m \in MaxStepsArgs :
          /\ t_current' = h
          /\ t_max' = m
    /\ t_step' = 1
    /\ t_i' = 0
    /\ t_highest' = Null
    /\ t_next' = None
    /\ op' = "trace"
    /\ pc' = "t_loop"
    /\ tx_hash' = None
    /\ raw_src' = "none"
    /\ in_k' = 0
    /\ ret' = None
    /\ written' = None
    /\ refusal' = NoRefusal
    /\ last_call' = NoCall
    /\ UNCHANGED <<srcVars, authorized, neoVars>>
    /\ MgrFrame

\* lines 165-175: the loop condition, the recovery attempt and the entry of
\* store_transaction_by_hash(current_hash), whose own recovery attempt finds
\* the counter below RetrySteps or just reset
trace_loop ==
    /\ pc = "t_loop"
    /\ t_step <= MaxTraceSteps
    /\ IF t_current # None /\ (t_max = 0 \/ t_step <= t_max)
       THEN \E probe_ok \in BOOLEAN :
               LET r == _try_return_to_local_node(probe_ok) IN
               /\ using_public_api' = r.using
               /\ public_api_steps' = r.steps
               /\ authorized' = (authorized /\ r.using)
               /\ last_call' = r.call
               /\ tx_hash' = t_current
               /\ raw_src' = "none"
               /\ in_k' = 0
               /\ ret' = None
               /\ written' = None
               /\ pc' = "s_fetch"
       ELSE /\ pc' = "done"
            /\ last_call' = NoCall
            /\ UNCHANGED <<srcVars, authorized, storeVars, ret, written>>
    /\ UNCHANGED <<op, traceVars, refusal, neoVars>>
    /\ MgrFrame

\* a trace that looks for the spender of the last transaction max_steps allows
trace_after_store_unlimited ==
    /\ pc = "t_stored"
    /\ IF ret = None
       THEN pc' = "done"
       ELSE pc' = "t_vout"
    /\ t_i' = 0
    /\ t_highest' = Null
    /\ t_next' = None
    /\ last_call' = NoCall
    /\ UNCHANGED <<srcVars, op, storeVars, ret, t_current, t_step, t_max,
                   authorized, written, refusal, neoVars>>
    /\ MgrFrame

\* lines 177-188: the trace stops when the transaction could not be
\* processed or max_steps is reached; otherwise the vout loop starts
trace_after_store ==
    /\ pc = "t_stored"
    /\ IF ret = None
       THEN pc' = "done"
       ELSE IF t_max # 0 /\ t_step = t_max
       THEN pc' = "done"
       ELSE pc' = "t_vout"
    /\ t_i' = 0
    /\ t_highest' = Null
    /\ t_next' = None
    /\ last_call' = NoCall
    /\ UNCHANGED <<srcVars, op, storeVars, ret, t_current, t_step, t_max,
                   authorized, written, refusal, neoVars>>
    /\ MgrFrame

\* a trace that keeps the spender found earlier when a higher output is unspent
next_hash_kept(o) == IF o = "spent" THEN SpenderOf(t_current, t_i) ELSE t_next

\* lines 229-236: next_hash follows the spender of the highest output so far
NextHashAfter(o) == IF o = "spent" THEN SpenderOf(t_current, t_i) ELSE None

\* lines 191-208, 229-254: one iteration of the vout loop, or its end
trace_vout ==
    /\ pc = "t_vout"
    /\ IF t_i >= Len(vouts[t_current])
       THEN /\ t_current' = t_next
            /\ IF t_next # None
               THEN pc' = "t_loop" /\ t_step' = t_step + 1
               ELSE pc' = "done" /\ t_step' = t_step
            /\ last_call' = NoCall
            /\ UNCHANGED <<public_api_steps, t_i, t_highest, t_next>>
       ELSE IF vouts[t_current][t_i + 1] <= t_highest
       THEN /\ t_i' = t_i + 1
            /\ pc' = pc
            /\ last_call' = NoCall
            /\ UNCHANGED <<public_api_steps, t_current, t_step, t_highest, t_next>>
       ELSE /\ t_highest' = vouts[t_current][t_i + 1]
            /\ \E o \in SpendOutcomes(t_current, t_i) :
                  IF using_public_api
                  THEN /\ last_call' = Call("api.get_spending_tx", o)
                       /\ public_api_steps' =
                              IF o = "spent" THEN public_api_steps + 1
                              ELSE public_api_steps
                       /\ t_next' = NextHashAfter(o)
                       /\ t_i' = t_i + 1
                       /\ pc' = pc
                  ELSE /\ last_call' = Call("electrs.get_spending_tx",
                                            IF rpc_connection THEN o ELSE "fail")
                       /\ public_api_steps' = public_api_steps
                       /\ IF o = "spent" /\ rpc_connection
                          THEN /\ t_next' = NextHashAfter(o)
                               /\ t_i' = t_i + 1
                               /\ pc' = pc
                          ELSE /\ pc' = "t_ask"
                               /\ UNCHANGED <<t_next, t_i>>
            /\ UNCHANGED <<t_current, t_step>>
    /\ UNCHANGED <<using_public_api, op, storeVars, ret, t_max, authorized,
                   written, refusal, neoVars>>
    /\ MgrFrame

\* lines 211-227: _ask_user_fallback_permission for a spend lookup
trace_ask ==
    /\ pc = "t_ask"
    /\ \E yes \in BOOLEAN :
          /\ last_call' = Call("ask", IF yes THEN "yes" ELSE "no")
          /\ IF yes
             THEN /\ using_public_api' = TRUE
                  /\ authorized' = TRUE
                  /\ pc' = "t_api"
                  /\ refusal' = refusal
             ELSE /\ pc' = "done"
                  /\ refusal' = [at |-> "trace", tx |-> t_current,
                                 steps |-> public_api_steps, written |-> written]
                  /\ UNCHANGED <<using_public_api, authorized>>
    /\ UNCHANGED <<public_api_steps, op, storeVars, ret, traceVars, written, neoVars>>
    /\ MgrFrame

\* lines 221-224, 229-236: the public API is asked for the spender
trace_api ==
    /\ pc = "t_api"
    /\ \E o \in SpendOutcomes(t_current, t_i) :
          /\ last_call' = Call("api.get_spending_tx", o)
          /\ public_api_steps' =
                 IF o = "spent" THEN public_api_steps + 1 ELSE public_api_steps
          /\ t_next' = NextHashAfter(o)
    /\ t_i' = t_i + 1
    /\ pc' = "t_vout"
    /\ UNCHANGED <<using_public_api, op, storeVars, ret, t_current, t_step, t_max,
                   t_highest, authorized, written, refusal, neoVars>>
    /\ MgrFrame

\* main.py: the operation is over and the menu is shown again; only the
\* Manager's source state outlives the operation
main_menu ==
    /\ pc = "done"
    /\ pc' = "idle"
    /\ op' = "none"
    /\ tx_hash' = None
    /\ raw_src' = "none"
    /\ in_k' = 0
    /\ ret' = None
    /\ t_current' = None
    /\ t_step' = 1
    /\ t_max' = 0
    /\ t_i' = 0
    /\ t_highest' = Null
    /\ t_next' = None
    /\ last_call' = NoCall
    /\ written' = None
    /\ refusal' = NoRefusal
    /\ UNCHANGED <<srcVars, authorized, neoVars>>
    /\ MgrFrame

(***************************************************************************)
(* Electrum protocol client (connectors/electrs_connector.py).             *)
(***************************************************************************)
\* the "result" of a reply: kind is "null", "status" (the status string of
\* subscribe, the true of unsubscribe), "history" or "tx"
Value(kind, hist, tx) == [kind |-> kind, hist |-> hist, tx |-> tx]

NullValue == Value("null", << >>, None)

\* a key that batch_get_spending_txs did not put into its results
Unset == "unset"

\* the scripthash is the byte-reversed SHA-256 of the script of the output
_calculate_scripthash(script_hex) == <<"sha256_reversed", script_hex>>

\* a transaction outside the chain of the model that pays to a script again
\* and spends none of the chain's outputs
Reused == "C"

\* a history entry whose transaction the server does not deliver
Undelivered == "X"

\* the inputs of a transaction as blockchain.transaction.get gives them
ServerVin(h) == IF h \in TxIds THEN vin[h] ELSE << >>

\* the server's history of a scripthash: the transaction that created the
\* output, the other transactions that touch the script (el_server.others)
\* and, when the output is spent, the transaction that spends it
ServerHistory(scripthash) ==
    LET o == scripthash[2]
        by == SpenderOf(o[1], o[2])
        seen == {el_server.others[k] : k \in 1 .. Len(el_server.others)}
    IN  <<o[1]>> \o el_server.others
            \o (IF by = None \/ by \in seen THEN << >> ELSE <<by>>)

\* the JSON document the server answers a request with
ServerReply(method, param) ==
    CASE method = "blockchain.scripthash.subscribe" ->
             IF el_server.subscribe = "error"
             THEN [kind |-> "error", val |-> NullValue]
             ELSE IF el_server.subscribe = "null"
             THEN [kind |-> "result", val |-> NullValue]
             ELSE [kind |-> "result", val |-> Value("status", << >>, None)]
      [] method = "blockchain.scripthash.get_history" ->
             IF el_server.history = "error"
             THEN [kind |-> "error", val |-> NullValue]
             ELSE [kind |-> "result",
                   val |-> Value("history", ServerHistory(param), None)]
      [] method = "blockchain.scripthash.unsubscribe" ->
             [kind |-> "result", val |-> Value("status", << >>, None)]
      [] OTHER ->
             IF param = Undelivered
             THEN [kind |-> "error", val |-> NullValue]
             ELSE [kind |-> "result", val |-> Value("tx", << >>, param)]

\* a newline-terminated document on the wire, as two pieces: the head, and
\* the tail that ends with the newline
Line(doc) == <<[part |-> "head", doc |-> doc], [part |-> "tail", doc |-> doc]>>

\* what the server writes after a request, as the sequence of pieces that
\* successive recv calls return; a server that notifies sends a
\* blockchain.scripthash.subscribe notification after the subscribe reply
ServerWrites(method, param) ==
    LET reply == Line(ServerReply(method, param))
        note == Line([kind |-> "notify", val |-> NullValue])
        subscribing == method = "blockchain.scripthash.subscribe"
    IN  CASE method = "blockchain.scripthash.get_history" /\ el_server.history = "timeout"
               -> << >>
          [] el_server.delivery = "split" -> <<<<reply[1]>>, <<reply[2]>>>>
          [] el_server.delivery = "notify_after" /\ subscribing -> <<reply, note>>
          [] el_server.delivery = "notify_joined" /\ subscribing -> <<reply \o note>>
          [] OTHER -> <<reply>>

\* the loop of lines 66-72: recv until a part holds a newline; an empty
\* wire ends the wait by timeout
RECURSIVE recv_until_newline(_, _)
recv_until_newline(response_data, wire) ==
    IF wire = << >>
    THEN [data |-> response_data, wire |-> wire, timeout |-> TRUE]
    ELSE IF \E k \in 1 .. Len(Head(wire)) : Head(wire)[k].part = "tail"
    THEN [data |-> response_data \o Head(wire), wire |-> Tail(wire), timeout |-> FALSE]
    ELSE recv_until_newline(response_data \o Head(wire), Tail(wire))

\* json.loads accepts exactly one document, followed by white space only
json_loads_ok(data) ==
    /\ Len(data) = 2
    /\ data[1].part = "head"
    /\ data[2].part = "tail"
    /\ data[1].doc = data[2].doc

\* what a reply document means to the caller: an error raises and gives
\* None, a document without "result" gives None
ResultOf(doc) == IF doc.kind = "result" THEN doc.val ELSE NullValue

\* one request on a socket whose unread bytes are wire: the value returned,
\* the bytes left unread, whether the request failed, and the document the
\* server answered this request with
_send_request_on_connection(wire, method, param) ==
    LET got == recv_until_newline(<< >>, wire \o ServerWrites(method, param))
        parsed == ~got.timeout /\ json_loads_ok(got.data)
    IN  [value |-> IF parsed THEN ResultOf(got.data[1].doc) ELSE NullValue,
         wire |-> got.wire,
         failed |-> ~parsed \/ got.data[1].doc.kind = "error",
         own |-> ServerReply(method, param),
         replies |-> Cardinality({k \in 1 .. Len(got.data) :
                                     /\ got.data[k].part = "tail"
                                     /\ got.data[k].doc.kind # "notify"})]

\* a request on a connection of its own, lines 42-53
_send_rpc_request(method, param) ==
    IF el_server.connect
    THEN _send_request_on_connection(<< >>, method, param)
    ELSE [value |-> NullValue, wire |-> << >>, failed |-> TRUE,
          own |-> ServerReply(method, param), replies |-> 0]

\* longest list of outpoints given to batch_get_spending_txs
MaxBatch == 2

\* the outpoints looked up: both outputs of A and an index A does not have
ElOutpoints == {<<"A", 0>>, <<"A", 1>>, <<"A", 2>>}

\* the lists of distinct outpoints of at most MaxBatch entries
ElLists ==
    UNION {{l \in [1 .. n -> ElOutpoints] : \A a, b \in 1 .. n : a # b => l[a] # l[b]} :
               n \in 0 .. MaxBatch}

\* the outpoint under lookup and its scripthash
Utxo == el_list[el_k]

ScriptHash == _calculate_scripthash(Utxo)

NoRequest == [sent |-> FALSE, value |-> NullValue, own |-> [kind |-> "result", val |-> NullValue]]

Request(r) == [sent |-> TRUE, value |-> r.value, own |-> r.own]

\* a request as the remote side sees it: who receives it, for which entry of
\* utxo_list and which entry of the history it is made
Sent(to, method, param, k, j) == [to |-> to, method |-> method, param |-> param, k |-> k, j |-> j]

\* a client that sends a request again
sendall_twice(request) == <<request, request>>

\* connection.sendall, line 63: the request goes out once
sendall_once(request) == <<request>>

\* highest request_id at which an operation is started
MaxRequestId == 5

\* _get_next_id, lines 27-31: the id of the request and the next request_id
_get_next_id(current_id) == [id |-> current_id, next |-> current_id + 1]

\* lines 58-63: a request that is made takes the next id
TakesId(made) ==
    /\ request_id' = IF made THEN _get_next_id(request_id).next ELSE request_id
    /\ el_ids' = IF made THEN Append(el_ids, _get_next_id(request_id).id) ELSE el_ids

\* btc_connector.get_transaction(txid), lines 143 and 222: a connector
\* without a connection sends nothing
NodeAsked(h, k) ==
    IF rpc_connection THEN <<Sent("node", "getrawtransaction", h, k, 0)>> ELSE << >>

ElFrame == UNCHANGED <<worldVars, neoVars, anVars, mgrVars, fnVars, cnVars, rtVars, unifVars, thVars, peelVars,
                        el_server>>

\* the lookup of the current outpoint ends with value v: get_spending_tx
\* returns it, batch_get_spending_txs stores it and goes to the next outpoint
lookup_ends(v) ==
    IF el_mode = "fresh"
    THEN /\ el_pc' = "done"
         /\ el_ret' = v
         /\ UNCHANGED <<el_k, el_results>>
    ELSE /\ el_pc' = "raw"
         /\ el_k' = el_k + 1
         /\ el_results' = [el_results EXCEPT ![Utxo] = v]
         /\ UNCHANGED el_ret

\* get_spending_tx, lines 139-147: the node gives the creating transaction
get_spending_tx ==
    /\ el_pc = "idle"
    /\ \E o \in ElOutpoints :
          /\ el_list' = <<o>>
          /\ el_log' = NodeAsked(o[1], 1)
          /\ IF btc_get_transaction(o[1], TRUE) = NoTx \/ o[2] >= Len(vouts[o[1]])
             THEN el_pc' = "done"
             ELSE el_pc' = "connect"
    /\ el_mode' = "fresh"
    /\ el_k' = 1
    /\ el_ret' = None
    /\ UNCHANGED <<el_results, el_wire, el_history, el_j, el_subs, el_failed,
                   el_fetched, el_last, fresh_results>>
    /\ request_id <= MaxRequestId
    /\ el_ids' = << >>
    /\ UNCHANGED <<request_id, el_out>>
    /\ ElFrame

\* _scripthash_query, lines 96-102 and 130-132: the connection
_scripthash_query ==
    /\ el_pc = "connect"
    /\ IF el_server.connect
       THEN /\ el_pc' = "subscribe"
            /\ UNCHANGED <<el_ret, el_failed>>
       ELSE /\ el_pc' = "done"
            /\ el_ret' = None
            /\ el_failed' = TRUE
    /\ el_wire' = << >>
    /\ UNCHANGED <<el_mode, el_list, el_k, el_results, el_history, el_j, el_subs,
                   el_fetched, el_last, fresh_results>>
    /\ UNCHANGED el_log
    /\ el_out' = 0
    /\ UNCHANGED <<request_id, el_ids>>
    /\ ElFrame

\* batch_get_spending_txs, lines 203-216 and 278-280
batch_get_spending_txs ==
    /\ el_pc = "idle"
    /\ \E utxo_list \in ElLists :
          /\ el_list' = utxo_list
          /\ IF utxo_list = << >>
             THEN el_pc' = "done" /\ UNCHANGED el_failed
             ELSE IF el_server.connect
             THEN el_pc' = "raw" /\ UNCHANGED el_failed
             ELSE el_pc' = "done" /\ el_failed' = TRUE
    /\ el_mode' = "batch"
    /\ el_k' = 1
    /\ el_results' = [o \in ElOutpoints |-> Unset]
    /\ el_wire' = << >>
    /\ UNCHANGED <<el_ret, el_history, el_j, el_subs, el_fetched, el_last,
                   fresh_results>>
    /\ el_log' = << >>
    /\ request_id <= MaxRequestId
    /\ el_ids' = << >>
    /\ el_out' = 0
    /\ UNCHANGED request_id
    /\ ElFrame

\* batch_get_spending_txs, lines 218-228 and 275-276: the next outpoint
batch_next_utxo ==
    /\ el_pc = "raw"
    /\ IF el_k > Len(el_list)
       THEN /\ el_pc' = "done"
            /\ UNCHANGED <<el_k, el_results>>
       ELSE IF btc_get_transaction(Utxo[1], TRUE) = NoTx \/ Utxo[2] >= Len(vouts[Utxo[1]])
       THEN /\ el_pc' = "raw"
            /\ el_k' = el_k + 1
            /\ el_results' = [el_results EXCEPT ![Utxo] = None]
       ELSE /\ el_pc' = "subscribe"
            /\ UNCHANGED <<el_k, el_results>>
    /\ el_fetched' = {}
    /\ UNCHANGED <<el_mode, el_list, el_ret, el_wire, el_history, el_j, el_subs,
                   el_failed, el_last, fresh_results>>
    /\ el_log' = IF el_k > Len(el_list) THEN el_log
                 ELSE el_log \o NodeAsked(Utxo[1], el_k)
    /\ UNCHANGED <<request_id, el_ids, el_out>>
    /\ ElFrame

\* blockchain.scripthash.subscribe: lines 105-111 return None on a None
\* reply, lines 231-233 go on whatever the reply
query_subscribe ==
    /\ el_pc = "subscribe"
    /\ LET r == _send_request_on_connection(el_wire, "blockchain.scripthash.subscribe",
                                            ScriptHash)
       IN  /\ el_wire' = r.wire
           /\ el_last' = Request(r)
           /\ el_failed' = (el_failed \/ r.failed)
           /\ el_subs' = el_subs \cup {ScriptHash}
           /\ IF el_mode = "fresh" /\ r.value.kind = "null"
              THEN el_pc' = "done" /\ el_ret' = None
              ELSE el_pc' = "history" /\ UNCHANGED el_ret
    /\ UNCHANGED <<el_mode, el_list, el_k, el_results, el_history, el_j, el_fetched,
                   fresh_results>>
    /\ el_log' = el_log \o sendall_once(Sent("electrum", "blockchain.scripthash.subscribe",
                                              ScriptHash, el_k, 0))
    /\ TakesId(TRUE)
    /\ el_out' = el_out + 1
                 - _send_request_on_connection(el_wire, "blockchain.scripthash.subscribe",
                                               ScriptHash).replies
    /\ ElFrame

\* blockchain.scripthash.get_history, lines 117-119 and 235-237
query_get_history ==
    /\ el_pc = "history"
    /\ LET r == _send_request_on_connection(el_wire, "blockchain.scripthash.get_history",
                                            ScriptHash)
       IN  /\ el_wire' = r.wire
           /\ el_last' = Request(r)
           /\ el_failed' = (el_failed \/ r.failed)
           /\ el_history' = r.value
    /\ el_pc' = "unsubscribe"
    /\ UNCHANGED <<el_mode, el_list, el_k, el_ret, el_results, el_j, el_subs,
                   el_fetched, fresh_results>>
    /\ el_log' = el_log \o sendall_once(Sent("electrum", "blockchain.scripthash.get_history",
                                              ScriptHash, el_k, 0))
    /\ TakesId(TRUE)
    /\ el_out' = el_out + 1
                 - _send_request_on_connection(el_wire, "blockchain.scripthash.get_history",
                                               ScriptHash).replies
    /\ ElFrame

\* blockchain.scripthash.unsubscribe, then "if not history": lines 123-127
\* with 154-157, and 239-245; a history that is no list raises in the loop
query_unsubscribe ==
    /\ el_pc = "unsubscribe"
    /\ LET r == _send_request_on_connection(el_wire, "blockchain.scripthash.unsubscribe",
                                            ScriptHash)
       IN  /\ el_wire' = r.wire
           /\ el_last' = Request(r)
           /\ el_failed' = (el_failed \/ r.failed)
    /\ el_subs' = el_subs \ {ScriptHash}
    /\ IF el_history.kind = "history" /\ el_history.hist # << >>
       THEN /\ el_pc' = "candidate"
            /\ el_j' = 1
            /\ UNCHANGED <<el_k, el_ret, el_results>>
       ELSE /\ lookup_ends(None)
            /\ UNCHANGED el_j
    /\ UNCHANGED <<el_mode, el_list, el_history, el_fetched, fresh_results>>
    /\ el_log' = el_log \o sendall_once(Sent("electrum", "blockchain.scripthash.unsubscribe",
                                              ScriptHash, el_k, 0))
    /\ TakesId(TRUE)
    /\ el_out' = el_out + 1
                 - _send_request_on_connection(el_wire, "blockchain.scripthash.unsubscribe",
                                               ScriptHash).replies
    /\ ElFrame

history_entry_kept_always(entry_hash, txid) == FALSE

\* a test of the inputs that compares the transaction hash only
spends_some_output(tx_vin, utxo) ==
    \E n \in 1 .. Len(tx_vin) : tx_vin[n][1] = utxo[1]

\* "vin.get('txid') == txid and vin.get('vout') == vout_index", lines
\* 180-183 and 264-267
spends_utxo(tx_vin, utxo) ==
    \E n \in 1 .. Len(tx_vin) : tx_vin[n] = utxo

\* "if tx_item['tx_hash'] == txid: continue", lines 163-165 and 251-252
is_creating_tx(entry_hash, txid) == entry_hash = txid

\* the loop over the history, lines 162-186 and 249-269: one entry
check_candidate ==
    /\ el_pc = "candidate"
    /\ IF el_j > Len(el_history.hist)
       THEN /\ lookup_ends(None)
            /\ UNCHANGED <<el_j, el_wire, el_last, el_failed, el_fetched>>
       ELSE IF is_creating_tx(el_history.hist[el_j], Utxo[1])
       THEN /\ el_j' = el_j + 1
            /\ UNCHANGED <<el_pc, el_k, el_ret, el_results, el_wire, el_last,
                           el_failed, el_fetched>>
       ELSE LET candidate == el_history.hist[el_j]
                r == IF el_mode = "fresh"
                     THEN _send_rpc_request("blockchain.transaction.get", candidate)
                     ELSE _send_request_on_connection(el_wire,
                              "blockchain.transaction.get", candidate)
            IN  /\ el_wire' = IF el_mode = "fresh" THEN el_wire ELSE r.wire
                /\ el_last' = Request(r)
                /\ el_failed' = (el_failed \/ r.failed)
                /\ el_fetched' = el_fetched \cup {candidate}
                /\ IF r.value.kind = "null"
                   THEN /\ el_j' = el_j + 1
                        /\ UNCHANGED <<el_pc, el_k, el_ret, el_results>>
                   ELSE IF r.value.kind # "tx"
                   THEN \* a reply that is no transaction raises at .get('vin')
                        /\ lookup_ends(None)
                        /\ UNCHANGED el_j
                   ELSE IF spends_utxo(ServerVin(r.value.tx), Utxo)
                   THEN /\ lookup_ends(candidate)
                        /\ UNCHANGED el_j
                   ELSE /\ el_j' = el_j + 1
                        /\ UNCHANGED <<el_pc, el_k, el_ret, el_results>>
    /\ UNCHANGED <<el_mode, el_list, el_history, el_subs, fresh_results>>
    /\ el_log' = IF el_j > Len(el_history.hist)
                    \/ is_creating_tx(el_history.hist[el_j], Utxo[1])
                    \/ (el_mode = "fresh" /\ ~el_server.connect)
                 THEN el_log
                 ELSE el_log \o sendall_once(Sent("electrum", "blockchain.transaction.get",
                                                  el_history.hist[el_j], el_k, el_j))
    /\ TakesId(Len(el_log') > Len(el_log))
    /\ el_out' = IF el_mode = "batch" /\ Len(el_log') > Len(el_log)
                 THEN el_out + 1
                      - _send_request_on_connection(el_wire, "blockchain.transaction.get",
                                                    el_history.hist[el_j]).replies
                 ELSE el_out
    /\ ElFrame

\* the caller takes the value of the lookup
lookup_returns ==
    /\ el_pc = "done"
    /\ el_pc' = "idle"
    /\ fresh_results' = IF el_mode = "fresh"
                        THEN [fresh_results EXCEPT ![el_list[1]] = el_ret]
                        ELSE fresh_results
    /\ el_mode' = "fresh"
    /\ el_list' = << >>
    /\ el_k' = 1
    /\ el_ret' = None
    /\ el_results' = [o \in ElOutpoints |-> Unset]
    /\ el_wire' = << >>
    /\ el_history' = NullValue
    /\ el_j' = 1
    /\ el_subs' = {}
    /\ el_failed' = FALSE
    /\ el_fetched' = {}
    /\ el_last' = NoRequest
    /\ el_log' = << >>
    /\ el_ids' = << >>
    /\ el_out' = 0
    /\ UNCHANGED request_id
    /\ ElFrame

(***************************************************************************)
(* The connectors called directly (connectors/bitcoin_connector.py,        *)
(* connectors/public_api_connector.py).                                    *)
(***************************************************************************)
\* how the handshake of BitcoinConnector.__init__ can end
Handshakes == {"ok", "JSONRPCException", "Exception"}

\* BitcoinConnector.__init__: whether rpc_connection is not None afterwards;
\* both except clauses set it to None and none of them raises
BitcoinConnector_init(handshake) == handshake = "ok"

\* a reply of the remote side: kind says how the request ended, the other
\* fields are the body of a 200 answer
Reply(kind, vin_data, vout_data, spent, txid) ==
    [kind |-> kind, vin |-> vin_data, vout |-> vout_data, spent |-> spent, txid |-> txid]

PlainReply(kind) == Reply(kind, << >>, << >>, "missing", None)

NoValue == [contacted |-> FALSE, tx |-> NoTx, spender |-> None, height |-> 0]

\* block hashes given to get_block_height; "blk" is a block of the chain
BlockHashes == {"blk", "", "Mempool"}

\* BitcoinConnector.get_block_height: the height and whether the node was
\* asked; "no_height" is a header without a height
get_block_height(block_hash, kind) ==
    IF ~rpc_connection \/ block_hash = "" \/ block_hash = "Mempool"
    THEN [height |-> 0, contacted |-> FALSE]
    ELSE [height |-> IF kind = "ok" THEN 7 ELSE 0, contacted |-> TRUE]

CnFrame == UNCHANGED <<worldVars, neoVars, anVars, mgrVars, fnVars, elVars, rtVars, unifVars, thVars, peelVars,
                        cn_call>>

\* BitcoinConnector.get_transaction called on its own
node_get_transaction ==
    /\ cn_pc = "input"
    /\ cn_call.fn = "btc.get_transaction"
    /\ cn_value' = [NoValue EXCEPT
                       !.contacted = rpc_connection,
                       !.tx = btc_get_transaction(cn_call.arg, cn_call.reply.kind = "ok")]
    /\ cn_pc' = "done"
    /\ CnFrame

\* BitcoinConnector.get_block_height called on its own
node_get_block_height ==
    /\ cn_pc = "input"
    /\ cn_call.fn = "btc.get_block_height"
    /\ LET r == get_block_height(cn_call.arg, cn_call.reply.kind)
       IN  cn_value' = [NoValue EXCEPT !.contacted = r.contacted, !.height = r.height]
    /\ cn_pc' = "done"
    /\ CnFrame

\* longest vin and vout list of a public API answer
MaxEntries == 2

\* the entries of "vin" in an answer: a dict with txid and vout, something
\* that is no dict, a dict without txid (coinbase), a dict without vout, a
\* dict whose vout is no number
VinKinds == {"good", "not_dict", "coinbase", "no_vout", "bad_vout"}

\* the entries of "vout": a dict with a value in satoshi, something that is
\* no dict, a dict without value, a dict whose value is no number, a dict
\* whose n is no number
VoutKinds == {"good", "not_dict", "no_value", "bad_value", "bad_n"}

EntryLists(kinds) == UNION {[1 .. n -> kinds] : n \in 0 .. MaxEntries}

\* the positions of a list whose entry is of one of the kinds, in order
KeptPositions(entries, kinds) ==
    SelectSeq([k \in 1 .. Len(entries) |-> k], LAMBDA k : entries[k] \in kinds)

\* lines 60-98: the inputs of formatted_tx; the input at position k of the
\* answer spends output k - 1 of A
FormatVin(vin_data) ==
    LET kept == KeptPositions(vin_data, {"good", "coinbase"})
    IN  [j \in 1 .. Len(kept) |->
            IF vin_data[kept[j]] = "coinbase"
            THEN [txid |-> "0", vout |-> Null]
            ELSE [txid |-> "A", vout |-> kept[j] - 1]]

\* lines 100-153: the outputs of formatted_tx; the output at position k of
\* the answer holds k * 100000000 satoshi and has no usable n when bad_n
FormatVout(vout_data) ==
    LET kept == KeptPositions(vout_data, {"good", "bad_n"})
    IN  [j \in 1 .. Len(kept) |->
            [value |-> (kept[j] * 100000000) \div 100000000, n |-> kept[j] - 1]]

\* a get_transaction that gives up on the first entry it cannot use
api_get_transaction_strict(txid, reply) ==
    IF /\ reply.kind = "ok"
       /\ \A k \in 1 .. Len(reply.vin) : reply.vin[k] \in {"good", "coinbase"}
       /\ \A k \in 1 .. Len(reply.vout) : reply.vout[k] \in {"good", "bad_n"}
    THEN [txid |-> txid, src |-> "api", vin |-> FormatVin(reply.vin),
          vout |-> FormatVout(reply.vout)]
    ELSE NoTx

\* PublicApiConnector.get_transaction: every failure of the request and
\* every answer that is no object with a txid gives None
api_get_transaction(txid, reply) ==
    IF reply.kind = "ok"
    THEN [txid |-> txid, src |-> "api", vin |-> FormatVin(reply.vin),
          vout |-> FormatVout(reply.vout)]
    ELSE NoTx

\* PublicApiConnector.get_spending_tx: 404 is "not spent"; a 200 answer
\* gives its txid when "spent" is true
api_get_spending_tx(reply) ==
    IF reply.kind = "ok" /\ reply.spent = "true" THEN reply.txid ELSE None

\* how a request to the public API can end without a usable body
ApiFailures ==
    {"timeout", "connection_error", "http_error", "not_json", "not_object"}

\* PublicApiConnector.get_transaction called on its own
api_get_transaction_call ==
    /\ cn_pc = "input"
    /\ cn_call.fn = "api.get_transaction"
    /\ cn_value' = [NoValue EXCEPT
                       !.contacted = TRUE,
                       !.tx = api_get_transaction(cn_call.arg, cn_call.reply)]
    /\ cn_pc' = "done"
    /\ CnFrame

\* PublicApiConnector.get_spending_tx called on its own
api_get_spending_tx_call ==
    /\ cn_pc = "input"
    /\ cn_call.fn = "api.get_spending_tx"
    /\ cn_value' = [NoValue EXCEPT
                       !.contacted = TRUE,
                       !.spender = api_get_spending_tx(cn_call.reply)]
    /\ cn_pc' = "done"
    /\ CnFrame

\* the calls on the public API connector, with every way the API can answer
ApiConnCalls ==
    {[fn |-> "api.get_transaction", arg |-> "A", n |-> 0, reply |-> PlainReply(k)] :
         k \in ApiFailures \cup {"no_txid"}}
    \cup {[fn |-> "api.get_transaction", arg |-> "A", n |-> 0,
           reply |-> Reply("ok", vi, vo, "missing", None)] :
              vi \in EntryLists(VinKinds), vo \in EntryLists(VoutKinds)}
    \cup {[fn |-> "api.get_spending_tx", arg |-> "A", n |-> 0, reply |-> PlainReply(k)] :
              k \in ApiFailures \cup {"not_found_404"}}
    \cup {[fn |-> "api.get_spending_tx", arg |-> "A", n |-> 0,
           reply |-> Reply("ok", << >>, << >>, sp, t)] :
              sp \in {"true", "false", "missing"}, t \in {"B", None}}

\* the calls on the node connector, with every way the node can answer
NodeCalls ==
    {[fn |-> "btc.get_transaction", arg |-> h, n |-> 0, reply |-> PlainReply(k)] :
         h \in HashArgs, k \in {"ok", "JSONRPCException", "Exception"}}
    \cup {[fn |-> "btc.get_block_height", arg |-> b, n |-> 0, reply |-> PlainReply(k)] :
              b \in BlockHashes, k \in {"ok", "no_height", "JSONRPCException", "Exception"}}

(***************************************************************************)
(* Requests to the public API in time (analysis/fan_in_analyzer.py,        *)
(* core/manager.py).                                                       *)
(***************************************************************************)
\* _api_call_delay, in ticks; elapsed times are counted up to it
ApiCallDelay == 3

\* the FanInAnalyzer instances of a session
FanInstances == {1, 2}

Elapse(t, d) == IF t + d > ApiCallDelay THEN ApiCallDelay ELSE t + d

RtFrame == UNCHANGED <<worldVars, neoVars, anVars, mgrVars, fnVars, elVars, cnVars, unifVars,
                       thVars, peelVars>>

\* time passes while nothing is requested
clock_tick ==
    /\ api_since' = Elapse(api_since, 1)
    /\ fan_since' = [f \in FanInstances |-> Elapse(fan_since[f], 1)]
    /\ UNCHANGED <<api_gap, api_caller>>
    /\ RtFrame

\* FanInAnalyzer._get_utxo_creation_time and _get_utxo_value_from_bitcoin:
\* the fallback to the public API sleeps until _api_call_delay has passed
\* since this instance's _last_api_call, then sends the request
fan_in_api_request ==
    /\ \E f \in FanInstances :
          LET slept == IF fan_since[f] < ApiCallDelay
                       THEN ApiCallDelay - fan_since[f] ELSE 0
          IN  /\ api_gap' = Elapse(api_since, slept)
              /\ fan_since' = [g \in FanInstances |->
                                  IF g = f THEN 0 ELSE Elapse(fan_since[g], slept)]
              /\ api_caller' = f
    /\ api_since' = 0
    /\ RtFrame

\* Manager: store_transaction_by_hash (111, 123), trace_transaction_path
\* (201, 221) and _process_inputs (281, 291) send the request at once
manager_api_request ==
    /\ api_gap' = api_since
    /\ api_since' = 0
    /\ api_caller' = 0
    /\ UNCHANGED fan_since
    /\ RtFrame

(***************************************************************************)
(* FanOutAnalyzer (analysis/fan_out_analyzer.py).                          *)
(***************************************************************************)
\* sum((i + 1) * v for i, v in enumerate(sorted_values))
RECURSIVE RankSum(_, _)
RankSum(sorted_values, i) ==
    IF i > Len(sorted_values) THEN 0
    ELSE i * sorted_values[i] + RankSum(sorted_values, i + 1)

\* the result for fewer than 2 values
InsufficientData == [raised |-> FALSE, sentinel |-> TRUE, score |-> <<0, 1>>]

\* the division by n * sum(sorted_values) raises ZeroDivisionError
ZeroDivision == [raised |-> TRUE, sentinel |-> FALSE, score |-> <<0, 1>>]

\* _analyze_distribution_uniformity: the score (1 - gini) * 100 as the exact
\* fraction <<numerator, denominator>>, with
\* gini = 2 * RankSum / (n * sum) - (n + 1) / n
_analyze_distribution_uniformity(values) ==
    IF Len(values) < 2 THEN InsufficientData
    ELSE LET sorted_values == SortInts(values)
             n == Len(values)
             total == SumSeq(sorted_values)
         IN  IF n * total = 0 THEN ZeroDivision
             ELSE [raised |-> FALSE, sentinel |-> FALSE,
                   score |-> <<100 * ((2 * n + 1) * total - 2 * RankSum(sorted_values, 1)),
                               n * total>>]

\* longest list of output values
MaxOutputs == 3

OutputValues == {0, 1, 2, 5}

OutputValueLists == UNION {[1 .. n -> OutputValues] : n \in 0 .. MaxOutputs}

\* _calculate_fan_out_metrics, line 267, hands the output values over
analyze_distribution_uniformity_call ==
    /\ unif_pc = "input"
    /\ unif_result' = _analyze_distribution_uniformity(unif_input)
    /\ unif_pc' = "done"
    /\ UNCHANGED <<unif_input, worldVars, neoVars, anVars, mgrVars, fnVars, elVars, cnVars,
                   rtVars, thVars, peelVars>>

(***************************************************************************)
(* Manager.store_transaction_by_hash called from several threads at a time *)
(* on one Manager (core/manager.py, lines 58-115).  The Manager holds no   *)
(* lock; a thread may be preempted between any two reads or writes of the  *)
(* attributes using_public_api and public_api_steps.                       *)
(***************************************************************************)
Threads == {1, 2}

MaxOperations == 7

\* a thread between two calls: it returned, or line 119 raised on raw_tx None
Quiescent == {"idle", "raised"}

ThFrame == UNCHANGED <<worldVars, neoVars, anVars, pc, op, storeVars, ret, traceVars,
                       last_call, authorized, written, refusal, fnVars, elVars, cnVars,
                       rtVars, unifVars, peelVars>>

\* lines 94, 62: the call starts and _try_return_to_local_node tests the state
th_store_transaction_by_hash(t) ==
    /\ th_pc[t] \in Quiescent
    /\ th_ops < MaxOperations
    /\ th_ops' = th_ops + 1
    /\ th_pc' = [th_pc EXCEPT ![t] =
                    IF using_public_api /\ public_api_steps >= RetrySteps
                    THEN "try_probe" ELSE "src_check"]
    /\ UNCHANGED <<srcVars, th_loaded, th_counted>>
    /\ ThFrame

\* lines 65-82: the probe of the node; line 70 on success, lines 76, 81 otherwise
th_try_probe(t) ==
    /\ th_pc[t] = "try_probe"
    /\ \E probe_ok \in BOOLEAN :
          IF rpc_connection /\ probe_ok
          THEN /\ using_public_api' = FALSE
               /\ th_pc' = [th_pc EXCEPT ![t] = "try_reset"]
               /\ UNCHANGED <<public_api_steps, th_counted>>
          ELSE /\ public_api_steps' = 0
               /\ th_counted' = 0
               /\ th_pc' = [th_pc EXCEPT ![t] = "src_check"]
               /\ UNCHANGED using_public_api
    /\ UNCHANGED <<th_loaded, th_ops>>
    /\ ThFrame

\* line 71: the counter is reset after the return to the node
th_try_reset(t) ==
    /\ th_pc[t] = "try_reset"
    /\ public_api_steps' = 0
    /\ th_counted' = 0
    /\ th_pc' = [th_pc EXCEPT ![t] = "src_check"]
    /\ UNCHANGED <<using_public_api, th_loaded, th_ops>>
    /\ ThFrame

\* lines 97-99: the node is asked unless the Manager is on the public API
th_local_fetch(t) ==
    /\ th_pc[t] = "src_check"
    /\ IF using_public_api
       THEN th_pc' = [th_pc EXCEPT ![t] = "api_check"]
       ELSE \E h \in HashArgs : \E o \in NodeOutcomes(h) :
               th_pc' = [th_pc EXCEPT ![t] = IF o = "ok" THEN "rest" ELSE "ask"]
    /\ UNCHANGED <<srcVars, th_loaded, th_ops, th_counted>>
    /\ ThFrame

\* lines 100-106: the user is asked; line 101 on yes, return None on no
th_ask(t) ==
    /\ th_pc[t] = "ask"
    /\ \E yes \in BOOLEAN :
          IF yes
          THEN /\ using_public_api' = TRUE
               /\ th_pc' = [th_pc EXCEPT ![t] = "api_check"]
          ELSE /\ th_pc' = [th_pc EXCEPT ![t] = "idle"]
               /\ UNCHANGED using_public_api
    /\ UNCHANGED <<public_api_steps, th_loaded, th_ops, th_counted>>
    /\ ThFrame

\* lines 109-114 with raw_tx None: the public API is asked if the Manager is
\* on it now; otherwise line 119 calls get on None
th_api_fetch(t) ==
    /\ th_pc[t] = "api_check"
    /\ IF using_public_api
       THEN \E h \in HashArgs : \E o \in ApiOutcomes(h) :
               th_pc' = [th_pc EXCEPT ![t] = IF o = "ok" THEN "inc_load" ELSE "idle"]
       ELSE th_pc' = [th_pc EXCEPT ![t] = "raised"]
    /\ UNCHANGED <<srcVars, th_loaded, th_ops, th_counted>>
    /\ ThFrame

\* line 115, self.public_api_steps += 1: the attribute is read
th_inc_load(t) ==
    /\ th_pc[t] = "inc_load"
    /\ th_loaded' = [th_loaded EXCEPT ![t] = public_api_steps]
    /\ th_pc' = [th_pc EXCEPT ![t] = "inc_store"]
    /\ UNCHANGED <<srcVars, th_ops, th_counted>>
    /\ ThFrame

\* line 115, self.public_api_steps += 1: the sum is written back
th_inc_store(t) ==
    /\ th_pc[t] = "inc_store"
    /\ public_api_steps' = th_loaded[t] + 1
    /\ th_counted' = th_counted + 1
    /\ th_pc' = [th_pc EXCEPT ![t] = "rest"]
    /\ UNCHANGED <<using_public_api, th_loaded, th_ops>>
    /\ ThFrame

\* lines 117 on, for a transaction whose inputs need no source: the call returns
th_return(t) ==
    /\ th_pc[t] = "rest"
    /\ th_pc' = [th_pc EXCEPT ![t] = "idle"]
    /\ UNCHANGED <<srcVars, th_loaded, th_ops, th_counted>>
    /\ ThFrame

(***************************************************************************)
(* One iteration of analyze (lines 307-331, 352-353) on the outputs of a   *)
(* resolved transaction, whatever they are.                                *)
(***************************************************************************)
OutputValuesOrNone == OutputValues \cup {Missing}

VoutLists == UNION {[1 .. n -> OutputValuesOrNone] : n \in 0 .. MaxOutputs}

\* the transaction whose outputs carry the values given
RawTxOf(values) ==
    [txid |-> "A", src |-> "node", vin |-> << >>,
     vout |-> [k \in 1 .. Len(values) |->
                 [n |-> k - 1, value |-> values[k], utxo_id |-> <<"A", k - 1>>]]]

\* no step, and whether the loop was left
NoStep(raised) == [appended |-> FALSE, ends |-> TRUE, raised |-> raised,
                   step |-> PeelStep("A", 0, <<[value |-> 0], [value |-> 0]>>)]

\* lines 307-331: the pair is identified and the step appended; line 310
\* breaks on (None, None), line 352 on an exception
analyze_iteration(raw_tx, total_input) ==
    LET pair == _identify_peeling_outputs(raw_tx) IN
    IF pair = KeyError THEN NoStep(TRUE)
    ELSE IF pair = NoPair THEN NoStep(FALSE)
    ELSE [appended |-> TRUE, ends |-> FALSE, raised |-> FALSE,
          step |-> PeelStep(raw_tx.txid, total_input, pair)]

analyze_iteration_call ==
    /\ peel_pc = "input"
    /\ \E total_input \in {0, 10} :
          peel_result' = analyze_iteration(RawTxOf(peel_input), total_input)
    /\ peel_pc' = "done"
    /\ UNCHANGED <<peel_input, worldVars, neoVars, anVars, mgrVars, fnVars, elVars, cnVars,
                   rtVars, unifVars, thVars>>

(***************************************************************************)
(* Initial states.                                                         *)
(***************************************************************************)
\* output value vectors, in units; a transaction's values are its units
\* times Scale, so that a transaction spending a change output is funded
Shapes(h) ==
    IF h = "A" THEN {<<4>>, <<1, 3>>, <<3, 1>>, <<2, 2>>, <<1, 1, 2>>}
    ELSE {<<4>>, <<1, 3>>, <<3, 1>>}
Scale(h) == IF h = "A" THEN 4 ELSE 2

Scaled(h, shape) == [k \in 1 .. Len(shape) |-> shape[k] * Scale(h)]

\* only the change output (largest value) of a transaction may be spent
ChangeSpent(vs, by) == [k \in 1 .. Len(vs) |-> IF k = RealChange(vs) THEN by ELSE None]

AnIdle ==
    /\ an_pc = "idle"
    /\ start_hash = None
    /\ current_hash = None
    /\ chain_data = << >>
    /\ an_hop = None
    /\ an_calls = << >>
    /\ an_coverage = FALSE
    /\ an_used = "none"
    /\ an_end = ""
    /\ an_fail = FALSE
    /\ result = [metrics |-> _calculate_metrics(<< >>), chain |-> << >>]

\* Manager.__init__, lines 9-16, before any request
MgrIdle ==
    /\ using_public_api = FALSE
    /\ public_api_steps = 0
    /\ pc = "idle"
    /\ op = "none"
    /\ tx_hash = None
    /\ raw_src = "none"
    /\ in_k = 0
    /\ ret = None
    /\ t_current = None
    /\ t_step = 1
    /\ t_max = 0
    /\ t_i = 0
    /\ t_highest = Null
    /\ t_next = None
    /\ last_call = NoCall
    /\ authorized = FALSE
    /\ written = None
    /\ refusal = NoRefusal

\* no list of percentages is under detection
FnIdle ==
    /\ detect_input = << >>
    /\ anomaly_result = _detect_anomalies(<< >>)
    /\ fn_pc = "idle"

\* a server that answers every request, one line per read
PlainServer ==
    [connect |-> TRUE, subscribe |-> "status", history |-> "ok", delivery |-> "line",
     others |-> << >>]

\* ElectrsConnector.__init__, lines 20-25: no lookup is under way
ElIdle ==
    /\ el_pc = "idle"
    /\ el_mode = "fresh"
    /\ el_list = << >>
    /\ el_k = 1
    /\ el_ret = None
    /\ el_results = [o \in ElOutpoints |-> Unset]
    /\ el_wire = << >>
    /\ el_history = NullValue
    /\ el_j = 1
    /\ el_subs = {}
    /\ el_failed = FALSE
    /\ el_fetched = {}
    /\ el_last = NoRequest
    /\ fresh_results = [o \in ElOutpoints |-> Unset]
    /\ el_log = << >>
    /\ request_id = 1
    /\ el_ids = << >>
    /\ el_out = 0

\* no connector call is under way
CnIdle ==
    /\ cn_call = [fn |-> "none", arg |-> None, n |-> 0, reply |-> PlainReply("none")]
    /\ cn_value = NoValue
    /\ cn_pc = "idle"

\* no request was sent to the public API: _last_api_call = 0 is long ago
RtIdle ==
    /\ api_since = ApiCallDelay
    /\ fan_since = [f \in FanInstances |-> ApiCallDelay]
    /\ api_gap = ApiCallDelay
    /\ api_caller = Null

\* no thread has called the Manager
ThIdle ==
    /\ th_pc = [t \in Threads |-> "idle"]
    /\ th_loaded = [t \in Threads |-> 0]
    /\ th_ops = 0
    /\ th_counted = 0

\* no iteration is under way
PeelIdle ==
    /\ peel_input = << >>
    /\ peel_result = NoStep(FALSE)
    /\ peel_pc = "idle"

\* no list of output values is under analysis
UnifIdle ==
    /\ unif_input = << >>
    /\ unif_result = InsufficientData
    /\ unif_pc = "idle"

SpentMarks(marked) ==
    {o \in {<<h, i>> : h \in TxIds, i \in 0 .. 2} :
        /\ o[1] \in marked
        /\ SpenderOf(o[1], o[2]) # None}

\* a chain of peeling-shaped or other transactions, any graph store content
InitAn ==
    /\ \/ \E sa \in Shapes("A"), sb \in Shapes("B"),
             by \in [TxIds -> TxIds \cup {None}] :
             /\ vouts = [h \in TxIds |-> Scaled(h, IF h = "A" THEN sa ELSE sb)]
             /\ spender = [h \in TxIds |-> ChangeSpent(vouts[h], by[h])]
       \/ \E sa \in {<<1, 3>>, <<3, 1>>}, sb \in {<<3, 5>>, <<5, 3>>} :
             \* B spends both outputs of A
             /\ vouts = [h \in TxIds |-> Scaled(h, IF h = "A" THEN sa ELSE sb)]
             /\ spender = [h \in TxIds |->
                              IF h = "A" THEN <<"B", "B">> ELSE <<None, None>>]
    /\ vin = [h \in TxIds |-> InputsOf(h)]
    /\ rpc_connection = TRUE
    /\ neo_tx \in SUBSET TxIds
    /\ neo_outs \in SUBSET TxIds
    /\ \E marked \in {{}, TxIds} : neo_spent = SpentMarks(marked)
    /\ AnIdle
    /\ MgrIdle
    /\ FnIdle
    /\ el_server = PlainServer
    /\ ElIdle
    /\ CnIdle
    /\ RtIdle
    /\ ThIdle
    /\ PeelIdle
    /\ UnifIdle

NextAn == analyze_start \/ analyze_loop(MaxHops) \/ analyze_return \/ print_results

SpecAn == InitAn /\ [][NextAn]_vars

\* a graph store holding every transaction in full, over any spend graph of
\* two-output transactions (cyclic and self-referential spends included)
InitCycle ==
    /\ \E sa \in {<<1, 3>>, <<3, 1>>}, sb \in {<<1, 3>>, <<3, 1>>},
          by \in [TxIds -> TxIds \cup {None}] :
          /\ vouts = [h \in TxIds |-> Scaled(h, IF h = "A" THEN sa ELSE sb)]
          /\ spender = [h \in TxIds |-> ChangeSpent(vouts[h], by[h])]
    /\ vin = [h \in TxIds |-> InputsOf(h)]
    /\ rpc_connection = TRUE
    /\ neo_tx = TxIds
    /\ neo_outs = TxIds
    /\ neo_spent = SpentMarks(TxIds)
    /\ AnIdle
    /\ MgrIdle
    /\ FnIdle
    /\ el_server = PlainServer
    /\ ElIdle
    /\ CnIdle
    /\ RtIdle
    /\ ThIdle
    /\ PeelIdle
    /\ UnifIdle

NextCycle ==
    analyze_start \/ analyze_loop(MaxChain) \/ analyze_return \/ print_results

SpecCycle == InitCycle /\ [][NextCycle]_vars

\* longest list of percentages given to _detect_anomalies
MaxPercentages == 5

PercentageValues == {0, 10, 50, 90}

PercentageLists ==
    UNION {[1 .. n -> PercentageValues] : n \in 0 .. MaxPercentages}

\* _calculate_metrics hands the chain's percentages to _detect_anomalies
detect_anomalies_call ==
    /\ fn_pc = "input"
    /\ anomaly_result' = _detect_anomalies(detect_input)
    /\ fn_pc' = "done"
    /\ UNCHANGED <<detect_input, worldVars, neoVars, anVars, mgrVars, elVars, cnVars, rtVars,
                   unifVars, thVars, peelVars>>

\* any list of percentages, before the detection
InitAnom ==
    /\ vouts = [h \in TxIds |-> <<4, 12>>]
    /\ spender = [h \in TxIds |-> <<None, None>>]
    /\ vin = [h \in TxIds |-> << >>]
    /\ rpc_connection = TRUE
    /\ neo_tx = {}
    /\ neo_outs = {}
    /\ neo_spent = {}
    /\ AnIdle
    /\ MgrIdle
    /\ detect_input \in PercentageLists
    /\ anomaly_result = _detect_anomalies(<< >>)
    /\ fn_pc = "input"
    /\ el_server = PlainServer
    /\ ElIdle
    /\ CnIdle
    /\ RtIdle
    /\ ThIdle
    /\ PeelIdle
    /\ UnifIdle

NextAnom == detect_anomalies_call

SpecAnom == InitAnom /\ [][NextAnom]_vars

\* the ways an Electrum server behaves; a server that refuses connections
\* answers nothing
\* the other entries of a history: scripts used again, by a transaction
\* outside the chain, by one the server does not deliver, or by B
OtherEntries == {<<Undelivered>>, <<Reused>>, <<Reused, Undelivered>>, <<"B">>}

ElServers ==
    {[connect |-> TRUE, subscribe |-> sub, history |-> his, delivery |-> del,
      others |-> << >>] :
        sub \in {"status", "null", "error"}, his \in {"ok", "error"},
        del \in {"line", "split", "notify_after", "notify_joined"}}
    \cup {[PlainServer EXCEPT !.connect = FALSE]}
    \cup {[PlainServer EXCEPT !.others = x] : x \in OtherEntries}
    \cup {[PlainServer EXCEPT !.history = "timeout"]}

\* spend lookups: A has two outputs, B spends none, the second or both of
\* them; the node is up or down
InitEl ==
    /\ vouts = [h \in TxIds |-> IF h = "A" THEN <<4, 12>> ELSE <<6, 10>>]
    /\ \E sa \in {<<None, None>>, <<None, "B">>, <<"B", "B">>} :
          spender = [h \in TxIds |-> IF h = "A" THEN sa ELSE <<None, None>>]
    /\ vin = [h \in TxIds |-> InputsOf(h)]
    /\ rpc_connection \in BOOLEAN
    /\ neo_tx = {}
    /\ neo_outs = {}
    /\ neo_spent = {}
    /\ AnIdle
    /\ MgrIdle
    /\ FnIdle
    /\ el_server \in ElServers
    /\ ElIdle
    /\ CnIdle
    /\ RtIdle
    /\ ThIdle
    /\ PeelIdle
    /\ UnifIdle

NextEl ==
    \/ get_spending_tx
    \/ _scripthash_query
    \/ batch_get_spending_txs
    \/ batch_next_utxo
    \/ query_subscribe
    \/ query_get_history
    \/ query_unsubscribe
    \/ check_candidate
    \/ lookup_returns

SpecEl == InitEl /\ [][NextEl]_vars

\* one connector call, after any handshake of the node connector
InitConn ==
    /\ vouts = [h \in TxIds |-> <<4, 12>>]
    /\ spender = [h \in TxIds |-> <<None, None>>]
    /\ vin = [h \in TxIds |-> << >>]
    /\ \E handshake \in Handshakes : rpc_connection = BitcoinConnector_init(handshake)
    /\ neo_tx = {}
    /\ neo_outs = {}
    /\ neo_spent = {}
    /\ AnIdle
    /\ MgrIdle
    /\ FnIdle
    /\ el_server = PlainServer
    /\ ElIdle
    /\ cn_call \in NodeCalls \cup ApiConnCalls
    /\ cn_value = NoValue
    /\ cn_pc = "input"
    /\ RtIdle
    /\ ThIdle
    /\ PeelIdle
    /\ UnifIdle

NextConn ==
    \/ node_get_transaction
    \/ node_get_block_height
    \/ api_get_transaction_call
    \/ api_get_spending_tx_call

SpecConn == InitConn /\ [][NextConn]_vars

\* the Manager and two FanInAnalyzer instances send requests to the public
\* API as time passes
InitRate ==
    /\ vouts = [h \in TxIds |-> <<4, 12>>]
    /\ spender = [h \in TxIds |-> <<None, None>>]
    /\ vin = [h \in TxIds |-> << >>]
    /\ rpc_connection \in BOOLEAN
    /\ neo_tx = {}
    /\ neo_outs = {}
    /\ neo_spent = {}
    /\ AnIdle
    /\ MgrIdle
    /\ FnIdle
    /\ el_server = PlainServer
    /\ ElIdle
    /\ CnIdle
    /\ RtIdle
    /\ ThIdle
    /\ PeelIdle
    /\ UnifIdle

NextRate == clock_tick \/ fan_in_api_request \/ manager_api_request

SpecRate == InitRate /\ [][NextRate]_vars

\* any list of output values, before the uniformity analysis
InitUnif ==
    /\ vouts = [h \in TxIds |-> <<4, 12>>]
    /\ spender = [h \in TxIds |-> <<None, None>>]
    /\ vin = [h \in TxIds |-> << >>]
    /\ rpc_connection = TRUE
    /\ neo_tx = {}
    /\ neo_outs = {}
    /\ neo_spent = {}
    /\ AnIdle
    /\ MgrIdle
    /\ FnIdle
    /\ el_server = PlainServer
    /\ ElIdle
    /\ CnIdle
    /\ RtIdle
    /\ ThIdle
    /\ PeelIdle
    /\ unif_input \in OutputValueLists
    /\ unif_result = InsufficientData
    /\ unif_pc = "input"

NextUnif == analyze_distribution_uniformity_call

SpecUnif == InitUnif /\ [][NextUnif]_vars

\* any list of outputs, before the iteration
InitPeel ==
    /\ vouts = [h \in TxIds |-> <<4, 12>>]
    /\ spender = [h \in TxIds |-> <<None, None>>]
    /\ vin = [h \in TxIds |-> << >>]
    /\ rpc_connection = TRUE
    /\ neo_tx = {}
    /\ neo_outs = {}
    /\ neo_spent = {}
    /\ AnIdle
    /\ MgrIdle
    /\ FnIdle
    /\ el_server = PlainServer
    /\ ElIdle
    /\ CnIdle
    /\ RtIdle
    /\ ThIdle
    /\ UnifIdle
    /\ peel_input \in VoutLists
    /\ peel_result = NoStep(FALSE)
    /\ peel_pc = "input"

NextPeel == analyze_iteration_call

SpecPeel == InitPeel /\ [][NextPeel]_vars

\* two threads share a Manager constructed with the node up or down
InitThreads ==
    /\ vouts = [h \in TxIds |-> <<4, 12>>]
    /\ spender = [h \in TxIds |-> <<None, None>>]
    /\ vin = [h \in TxIds |-> << >>]
    /\ rpc_connection \in BOOLEAN
    /\ neo_tx = {}
    /\ neo_outs = {}
    /\ neo_spent = {}
    /\ AnIdle
    /\ MgrIdle
    /\ FnIdle
    /\ el_server = PlainServer
    /\ ElIdle
    /\ CnIdle
    /\ RtIdle
    /\ ThIdle
    /\ PeelIdle
    /\ UnifIdle

NextThreads ==
    \E t \in Threads :
        \/ th_store_transaction_by_hash(t)
        \/ th_try_probe(t)
        \/ th_try_reset(t)
        \/ th_local_fetch(t)
        \/ th_ask(t)
        \/ th_api_fetch(t)
        \/ th_inc_load(t)
        \/ th_inc_store(t)
        \/ th_return(t)

SpecThreads == InitThreads /\ [][NextThreads]_vars

\* an input of B that names an output A does not have
BadIndex == <<"A", 2>>

\* traces and stores over transactions whose outputs are spent or not whatever
\* their value: A has two outputs of different or equal value, each spent by
\* B or unspent; the higher output of B is unspent or spent by A (a spend
\* cycle); the inputs B reports are the outputs it spends, or these and one
\* with an output index beyond A's outputs
InitTrace ==
    /\ \E va \in {<<4, 12>>, <<12, 4>>, <<8, 8>>}, sa \in [1 .. 2 -> {None, "B"}],
          sb \in {None, "A"} :
          /\ vouts = [h \in TxIds |-> IF h = "A" THEN va ELSE <<2, 6>>]
          /\ spender = [h \in TxIds |-> IF h = "A" THEN sa ELSE <<None, sb>>]
    /\ \E bad \in {<< >>, <<BadIndex>>} :
          vin = [h \in TxIds |-> IF h = "B" THEN InputsOf(h) \o bad ELSE InputsOf(h)]
    /\ rpc_connection \in BOOLEAN
    /\ neo_tx = {}
    /\ neo_outs = {}
    /\ neo_spent = {}
    /\ AnIdle
    /\ MgrIdle
    /\ FnIdle
    /\ el_server = PlainServer
    /\ ElIdle
    /\ CnIdle
    /\ RtIdle
    /\ ThIdle
    /\ PeelIdle
    /\ UnifIdle

NextTrace ==
    \/ store_transaction_by_hash
    \/ store_local_fetch
    \/ store_ask
    \/ store_api_fetch
    \/ store_block_height
    \/ process_input_fetch
    \/ process_input_ask
    \/ process_input_api
    \/ store_write
    \/ trace_transaction_path
    \/ trace_loop
    \/ trace_after_store
    \/ trace_vout
    \/ trace_ask
    \/ trace_api
    \/ main_menu

SpecTrace == InitTrace /\ [][NextTrace]_vars

\* every call, prompt and step of the Manager ends: the operation goes on
\* while it has a step to take
SpecTraceFair == SpecTrace /\ WF_vars(NextTrace)

\* a session: the Manager is constructed with the node up or down, the graph
\* store is empty, and the user stores, traces and analyses
Init ==
    /\ \E sa \in {<<4>>, <<1, 3>>, <<3, 1>>}, sb \in {<<1, 3>>, <<3, 1>>},
          b \in {None, "B"} :
          /\ vouts = [h \in TxIds |-> Scaled(h, IF h = "A" THEN sa ELSE sb)]
          /\ spender = [h \in TxIds |->
                           ChangeSpent(vouts[h], IF h = "A" THEN b ELSE None)]
    /\ vin = [h \in TxIds |-> InputsOf(h)]
    /\ rpc_connection \in BOOLEAN
    /\ neo_tx = {}
    /\ neo_outs = {}
    /\ neo_spent = {}
    /\ AnIdle
    /\ MgrIdle
    /\ FnIdle
    /\ el_server = PlainServer
    /\ ElIdle
    /\ CnIdle
    /\ RtIdle
    /\ ThIdle
    /\ PeelIdle
    /\ UnifIdle

Next ==
    \/ store_transaction_by_hash
    \/ store_local_fetch
    \/ store_ask
    \/ store_api_fetch
    \/ store_block_height
    \/ process_input_fetch
    \/ process_input_ask
    \/ process_input_api
    \/ store_write
    \/ trace_transaction_path
    \/ trace_loop
    \/ trace_after_store
    \/ trace_vout
    \/ trace_ask
    \/ trace_api
    \/ main_menu
    \/ analyze_start
    \/ analyze_loop(MaxHops)
    \/ analyze_return
    \/ print_results

Spec == Init /\ [][Next]_vars

(***************************************************************************)
(* Claims.                                                                 *)
(***************************************************************************)
Hashes(chain) == [k \in 1 .. Len(chain) |-> chain[k].tx_hash]

HasCall(calls, name) == \E k \in 1 .. Len(calls) : calls[k][1] = name

\* the store has a Transaction node for h but no outputs, or an input whose
\* UTXO node carries no value
StoreIncomplete(h) ==
    /\ h \in neo_tx
    /\ \/ h \notin neo_outs
       \/ \E k \in 1 .. Len(vin[h]) : vin[h][k][1] \notin neo_outs

StoreComplete(h) == h \in neo_tx /\ ~StoreIncomplete(h)

\* C1: analyze never appends more than 100 PeelSteps, whatever the graph
\* (cyclic and self-referential spends included).
C1_HopCeiling == Len(chain_data) <= 100

\* requests served by the node or the Electrum server
LocalCalls == {"rpc.getrawtransaction", "rpc.getblockheader", "electrs.get_spending_tx"}

\* the positions at which the user is asked to authorize the public API
AskPcs == {"s_ask", "s_in_ask", "t_ask"}

\* the step runs _try_return_to_local_node
RecoveryStep == pc \in {"idle", "t_loop"} /\ pc' = "s_fetch"

\* C2: no request goes to the public API unless the user answered yes since
\* the node was last authoritative, and a return to the node is the work of
\* the health probe, never of a prompt.
C2_ApiOnlyWhenAuthorized ==
    /\ [](last_call.name \in ApiCalls => (authorized /\ using_public_api))
    /\ [][(using_public_api /\ ~using_public_api')
              => (RecoveryStep /\ last_call' = Call("rpc.getblockchaininfo", "ok"))]_vars
    /\ [][RecoveryStep => last_call'.name # "ask"]_vars

C2_Witness ==
    /\ last_call = Call("api.get_transaction", "ok")
    /\ authorized
    /\ pc = "s_height"

\* C3: the user is asked (and the state can be demoted) only after a failure
\* of the current source, never after a valid negative answer (the
\* transaction does not exist, the output has no spender yet).
C3_NegativeNeverAsks == pc \in AskPcs => last_call.outcome = "fail"

\* C4 as stated: after a refusal the source state is unchanged, no public
\* API request is made, nothing was written to the graph store for the
\* current transaction and the operation ends without a result.
C4_RefusalWritesNothing ==
    refusal.at # "none" =>
        /\ ~using_public_api
        /\ public_api_steps = refusal.steps
        /\ last_call.name \notin ApiCalls
        /\ written # refusal.tx
        /\ pc \in {"done", "t_stored"}

\* C4 as amended: after a refusal the source state is unchanged, no public
\* API request is made, nothing more is written to the graph store and the
\* operation ends without a result; a refusal in store_transaction_by_hash
\* or _process_inputs leaves the current transaction unwritten, a refusal
\* at a spend lookup of trace_transaction_path comes after the current
\* transaction was stored.
C4_RefusalStopsOperation ==
    refusal.at # "none" =>
        /\ ~using_public_api
        /\ public_api_steps = refusal.steps
        /\ last_call.name \notin ApiCalls
        /\ written = refusal.written
        /\ pc \in {"done", "t_stored"}
        /\ refusal.at \in {"store", "inputs"} => (written = None /\ ret = None)
        /\ refusal.at = "trace" => (written = refusal.tx /\ pc = "done")

C4_Witness ==
    /\ refusal.at = "trace"
    /\ written = refusal.tx
    /\ pc = "done"
    /\ last_call = Call("ask", "no")

\* C5: a store_transaction_by_hash entered after RetrySteps operations of
\* the public API probes the node (getblockchaininfo) before anything else,
\* however the connector was left, a failed construction included.
C5_ProbeAfterFiveOps ==
    [][(pc = "idle" /\ op' = "store" /\ using_public_api
            /\ public_api_steps >= RetrySteps)
          => last_call'.name = "rpc.getblockchaininfo"]_vars

\* C6: a recovery attempt (entered degraded with the counter at RetrySteps
\* or more) leaves the counter at 0 and returns to the node exactly when the
\* probe succeeded; entered otherwise, the call changes nothing.
C6_RecoveryAttempt ==
    [][RecoveryStep =>
          IF using_public_api /\ public_api_steps >= RetrySteps
          THEN /\ public_api_steps' = 0
               /\ ~using_public_api' <=> last_call' = Call("rpc.getblockchaininfo", "ok")
          ELSE /\ using_public_api' = using_public_api
               /\ public_api_steps' = public_api_steps
               /\ last_call' = NoCall]_vars

C6_Witness ==
    /\ last_call = Call("rpc.getblockchaininfo", "fail")
    /\ using_public_api
    /\ public_api_steps = 0
    /\ pc = "s_fetch"

\* C7: every successful answer of the public API (transaction, input
\* source, block height, spender or 'not spent') raises public_api_steps by
\* exactly 1, and an operation served locally leaves it alone.
C7_EachApiAnswerCounted ==
    [][/\ (last_call'.name \in ApiCalls
            /\ last_call'.outcome \in {"ok", "spent", "unspent"})
           => public_api_steps' = public_api_steps + 1
       /\ last_call'.name \in LocalCalls
           => public_api_steps' = public_api_steps]_vars

\* the positions of store_transaction_by_hash after its first fetch
FetchedPcs == {"s_ask", "s_api", "s_height", "s_input", "s_in_ask", "s_in_api", "s_write"}

\* C8 as stated: while the graph store holds a complete record of the hash
\* being resolved, neither store_transaction_by_hash nor analyze sends a
\* request to the node, the Electrum server or the public API for it.
C8_CompleteRecordNoSourceCall ==
    /\ (pc \in FetchedPcs /\ tx_hash \in TxIds /\ StoreComplete(tx_hash))
           => last_call.name \notin (LocalCalls \cup ApiCalls)
    /\ (an_hop # None /\ StoreComplete(an_hop))
           => (an_used = "neo4j" /\ ~HasCall(an_calls, "btc.get_transaction"))

\* C8 as amended: when the graph store holds a complete record of the
\* current hash, PeelingChainAnalyzer.analyze takes the transaction from
\* that record and asks no transaction source for it or for its inputs.
C8_AnalyzeUsesCompleteRecord ==
    (an_hop # None /\ StoreComplete(an_hop))
        => (an_used = "neo4j" /\ ~HasCall(an_calls, "btc.get_transaction"))

C8_Witness ==
    /\ an_hop = "B"
    /\ StoreComplete("B")
    /\ Len(vin["B"]) > 0
    /\ Len(chain_data) > 0
    /\ chain_data[Len(chain_data)].tx_hash = "B"

\* C9: an incomplete graph-store record of the current hash is not used as
\* is: the iteration re-derives the data from a transaction source.
C9_IncompleteRederived ==
    (an_hop # None /\ StoreIncomplete(an_hop))
        => HasCall(an_calls, "btc.get_transaction")

\* the hash spending the output of largest value of h
ChangeSpender(h) == SpenderOf(h, RealChange(vouts[h]) - 1)

PeelShaped(h) == Len(vouts[h]) = 2 /\ vouts[h][1] # vouts[h][2]

\* the chain from h, when it is a linear chain of at most two peeling-shaped
\* transactions ending in an unspent change output; << >> otherwise
LinearChain(h) ==
    IF ~PeelShaped(h) THEN << >>
    ELSE IF ChangeSpender(h) = None THEN <<h>>
    ELSE IF /\ ChangeSpender(h) # h
            /\ PeelShaped(ChangeSpender(h))
            /\ ChangeSpender(ChangeSpender(h)) = None
         THEN <<h, ChangeSpender(h)>>
         ELSE << >>

\* C10: on a linear chain whose last change output is unspent, with every
\* source answering and the store holding complete records or none, analyze
\* returns the chain's transactions in walk order and ends with ChainEnd.
C10_LinearChainWalked ==
    (/\ an_pc = "returned"
     /\ LinearChain(start_hash) # << >>
     /\ ~an_fail
     /\ \A h \in TxIds : ~StoreIncomplete(h))
        => (Hashes(result.chain) = LinearChain(start_hash) /\ an_end = "ChainEnd")

\* the number of outputs of the raw_tx the last iteration worked on
HopOutputCount ==
    IF an_used = "neo4j" THEN Len(get_transaction_outputs(an_hop))
    ELSE IF an_used = "node" THEN Len(vouts[an_hop])
    ELSE 0

SpendLookups == {"neo4j.find_spending_transaction", "electrs.get_spending_tx"}

\* C11: an iteration whose resolved transaction has fewer than 2 outputs
\* ends the walk as NotPeelingShaped: it appends no PeelStep, looks up no
\* spender and keeps the steps collected so far.
C11_FewOutputsEndWalk ==
    [][(an_pc = "walking" /\ an_used' # "none" /\ HopOutputCount' < 2)
          => /\ an_end' = "NotPeelingShaped"
             /\ an_pc' = "post"
             /\ chain_data' = chain_data
             /\ \A name \in SpendLookups : ~HasCall(an_calls', name)]_vars

C11_Witness ==
    /\ an_end = "NotPeelingShaped"
    /\ an_used = "node"
    /\ HopOutputCount = 1
    /\ Len(chain_data) = 1
    /\ an_hop # chain_data[1].tx_hash

MinVal(vs) == CHOOSE x \in {vs[k] : k \in 1 .. Len(vs)} : \A k \in 1 .. Len(vs) : x <= vs[k]
MaxVal(vs) == CHOOSE x \in {vs[k] : k \in 1 .. Len(vs)} : \A k \in 1 .. Len(vs) : x >= vs[k]

\* the last iteration appended a PeelStep for its transaction, peeling the
\* smallest output and keeping the largest as change
HopPeeled ==
    /\ Len(chain_data) > 0
    /\ chain_data[Len(chain_data)].tx_hash = an_hop
    /\ chain_data[Len(chain_data)].peeled_value = MinVal(vouts[an_hop])
    /\ chain_data[Len(chain_data)].change_value = MaxVal(vouts[an_hop])

\* the last iteration looked up the spender of output i of its transaction
LookedUp(i) ==
    \E k \in 1 .. Len(an_calls) :
        an_calls[k][1] \in SpendLookups /\ an_calls[k][3] = i

\* C12 as stated: every resolved transaction with at least 2 outputs gets a
\* PeelStep whose peeled value is its smallest output and whose change value
\* is its largest.
C12_TwoOrMoreOutputsPeeled ==
    (an_hop # None /\ an_used # "none" /\ HopOutputCount >= 2) => HopPeeled

\* C12 as amended: a resolved transaction with exactly 2 outputs gets a
\* PeelStep peeling the smaller output and keeping the larger (the second of
\* the list on a tie) as change; one with 3 or more outputs gets none and
\* ends the walk as NotPeelingShaped.
C12_ExactlyTwoOutputsPeeled ==
    /\ (an_hop # None /\ an_used # "none" /\ HopOutputCount = 2) => HopPeeled
    /\ (an_hop # None /\ an_used = "node" /\ HopOutputCount = 2)
           => LookedUp(RealChange(vouts[an_hop]) - 1)
    /\ (an_hop # None /\ an_used # "none" /\ HopOutputCount > 2)
           => (an_end = "NotPeelingShaped" /\ an_pc \in {"post", "returned"}
               /\ \A k \in 1 .. Len(chain_data) : chain_data[k].tx_hash # an_hop)

C12_Witness ==
    /\ an_used = "node"
    /\ HopOutputCount = 2
    /\ vouts[an_hop][1] = vouts[an_hop][2]
    /\ HopPeeled
    /\ LookedUp(1)

\* the outputs of h are covered by the outputs it spends
Funded(h) ==
    SumSeq(vouts[h]) <= SumSeq([k \in 1 .. Len(vin[h]) |->
                                   vouts[vin[h][k][1]][vin[h][k][2] + 1]])

\* C13: every PeelStep of a funded transaction with a positive input total
\* has a peeled percentage within [0, 100], also when some input values
\* could not be resolved.
C13_PercentageInRange ==
    \A k \in 1 .. Len(chain_data) :
        (Funded(chain_data[k].tx_hash) /\ chain_data[k].input_value > 0)
            => /\ chain_data[k].peeled_percentage[1] >= 0
               /\ chain_data[k].peeled_percentage[1]
                      <= 100 * chain_data[k].peeled_percentage[2]

\* the k-th smallest element of a
KthSmallest(a, k) ==
    CHOOSE v \in {a[j] : j \in 1 .. Len(a)} :
        /\ Cardinality({j \in 1 .. Len(a) : a[j] < v}) < k
        /\ Cardinality({j \in 1 .. Len(a) : a[j] <= v}) >= k

\* 4 times the percentile of rank quarters * (n - 1) / 4, as the weighted
\* mean of the two order statistics around the rank
Quartile4(a, quarters) ==
    LET rank4 == quarters * (Len(a) - 1)
        lo == KthSmallest(a, (rank4 \div 4) + 1)
        hi == KthSmallest(a, IF rank4 % 4 = 0 THEN (rank4 \div 4) + 1
                             ELSE (rank4 \div 4) + 2)
    IN  (4 - (rank4 % 4)) * lo + (rank4 % 4) * hi

\* v lies outside [Q1 - 1.5 * IQR, Q3 + 1.5 * IQR] of a
OutsideFences(a, v) ==
    LET q1 == Quartile4(a, 1)
        q3 == Quartile4(a, 3)
    IN  \/ 8 * v < 2 * q1 - 3 * (q3 - q1)
        \/ 8 * v > 2 * q3 + 3 * (q3 - q1)

\* C14: on at least 4 percentages _detect_anomalies flags exactly the
\* positions whose value lies outside [Q1 - 1.5*IQR, Q3 + 1.5*IQR], in
\* ascending order; [10,10,10,10] has no anomaly, [10,10,10,90] exactly one,
\* at the last position.
C14_AnomaliesOutsideFences ==
    (fn_pc = "done" /\ Len(detect_input) >= 4) =>
        /\ \A i \in 0 .. (Len(detect_input) - 1) :
               (\E k \in 1 .. Len(anomaly_result.anomalies) :
                    anomaly_result.anomalies[k] = i)
                   <=> OutsideFences(detect_input, detect_input[i + 1])
        /\ \A k \in 1 .. (Len(anomaly_result.anomalies) - 1) :
               anomaly_result.anomalies[k] < anomaly_result.anomalies[k + 1]
        /\ anomaly_result.anomaly_count = Len(anomaly_result.anomalies)
        /\ detect_input = <<10, 10, 10, 10>> => anomaly_result.anomalies = << >>
        /\ detect_input = <<10, 10, 10, 90>> => anomaly_result.anomalies = <<3>>

C14_Witness ==
    /\ fn_pc = "done"
    /\ detect_input = <<10, 10, 10, 90>>
    /\ anomaly_result = [anomalies |-> <<3>>, anomaly_count |-> 1]

\* the returned metrics carry an anomaly entry, and it is empty
EmptyDetection ==
    /\ "anomaly_detection" \in DOMAIN result.metrics.advanced_analytics
    /\ result.metrics.advanced_analytics.anomaly_detection
           = [anomalies |-> << >>, anomaly_count |-> 0]

\* analyze returned the steps it collected and their aggregate statistics
StepsReturned ==
    /\ result.chain = chain_data
    /\ result.metrics.chain_length = Len(chain_data)
    /\ result.metrics.total_peeled_value = SumField(chain_data, "peeled_value")

\* C15 as stated: for a chain of fewer than 4 steps, the empty chain
\* included, analyze returns the steps, the aggregate statistics and an
\* empty anomaly set with count 0.
C15_ShortChainEmptyAnomalies ==
    (an_pc = "returned" /\ Len(chain_data) < 4) => (EmptyDetection /\ StepsReturned)

\* C15 as amended: for a chain of 1 to 3 steps analyze returns the steps, the
\* aggregate statistics and an empty anomaly set with count 0; for the empty
\* chain it returns chain_length 0 and an advanced_analytics without any
\* anomaly entry.
C15_ShortChainResult ==
    /\ (an_pc = "returned" /\ Len(chain_data) \in 1 .. 3)
           => (EmptyDetection /\ StepsReturned)
    /\ (an_pc = "returned" /\ Len(chain_data) = 0)
           => (result.metrics.advanced_analytics = NoAnalytics /\ StepsReturned)

C15_Witness ==
    /\ an_pc = "returned"
    /\ Len(chain_data) = 2
    /\ EmptyDetection
    /\ StepsReturned

\* C16: in every spend lookup, fresh or batch, once a subscribe request for
\* a scripthash has been sent on a socket, an unsubscribe request for the
\* same scripthash has been sent on that socket when the lookup of the
\* outpoint ends, whatever the subscribe reply and the history request gave.
C16_UnsubscribeAlways ==
    el_pc \in {"raw", "done"} => el_subs = {}

\* C17: batch_get_spending_txs maps each outpoint of its list to exactly
\* the value get_spending_tx returns for that outpoint from the same server.
C17_BatchEqualsFresh ==
    (el_pc = "done" /\ el_mode = "batch")
        => \A n \in 1 .. Len(el_list) :
               fresh_results[el_list[n]] # Unset
                   => el_results[el_list[n]] = fresh_results[el_list[n]]

\* the lookup of the current outpoint got a history holding nothing but the
\* transaction that created the outpoint
OnlyCreatingTx ==
    /\ el_list # << >>
    /\ el_history = Value("history", <<el_list[1][1]>>, None)

\* C18: get_spending_tx on an outpoint whose creating transaction is the
\* only entry of its history returns None without fetching any candidate;
\* and no lookup fetches the creating transaction as a candidate or returns
\* it as the spender of its own output.
C18_CreatingTxSkipped ==
    /\ (el_pc = "done" /\ el_mode = "fresh" /\ OnlyCreatingTx)
           => (el_ret = None /\ el_fetched = {})
    /\ (el_pc # "idle" /\ el_k <= Len(el_list))
           => /\ Utxo[1] \notin el_fetched
              /\ el_ret # Utxo[1]
              /\ el_results[Utxo] # Utxo[1]

C18_Witness ==
    /\ el_pc = "done"
    /\ el_mode = "fresh"
    /\ OnlyCreatingTx
    /\ el_last.sent
    /\ el_ret = None

\* a value that tells the caller a request failed
ProtocolError == "ProtocolError"

\* C19: a spend lookup in which an Electrum request failed returns an error
\* outcome, never the None of an unspent output nor a hash.
C19_FailureDistinguishable ==
    (el_pc = "done" /\ el_mode = "fresh" /\ el_failed) => el_ret = ProtocolError

\* C20: every request on a socket returns the result of the line the
\* server answered that request with, however the reply is cut into reads
\* and whatever follows it.
C20_ReplyOfOwnLine ==
    el_last.sent => el_last.value = ResultOf(el_last.own)

\* C21: a failed handshake leaves the node connector without a connection,
\* and without a connection every get_transaction returns None and every
\* get_block_height returns 0, without a request to the node.
C21_UnavailableNodeDegrades ==
    /\ \A handshake \in Handshakes \ {"ok"} : ~BitcoinConnector_init(handshake)
    /\ (cn_pc = "done" /\ ~rpc_connection
            /\ cn_call.fn \in {"btc.get_transaction", "btc.get_block_height"})
           => cn_value = NoValue

C21_Witness ==
    /\ cn_pc = "done"
    /\ ~rpc_connection
    /\ cn_call.fn = "btc.get_transaction"
    /\ cn_call.arg \in TxIds
    /\ cn_call.reply.kind = "ok"
    /\ cn_value = NoValue

\* the answer holds a vin or vout entry that cannot be used
MalformedEntry ==
    \/ \E k \in 1 .. Len(cn_call.reply.vin) :
           cn_call.reply.vin[k] \in {"not_dict", "no_vout", "bad_vout"}
    \/ \E k \in 1 .. Len(cn_call.reply.vout) :
           cn_call.reply.vout[k] \in {"not_dict", "no_value", "bad_value"}

\* get_spending_tx of the public API: 404 and every failure give None, a
\* 200 answer gives its txid only when spent is true
ApiSpendOutcome ==
    (cn_pc = "done" /\ cn_call.fn = "api.get_spending_tx")
        => /\ cn_call.reply.kind # "ok" => cn_value.spender = None
           /\ cn_value.spender # None
                 => (cn_call.reply.spent = "true" /\ cn_value.spender = cn_call.reply.txid)
           /\ (cn_call.reply.kind = "ok" /\ cn_call.reply.spent = "true")
                 => cn_value.spender = cn_call.reply.txid

\* C22 as stated: get_transaction of the public API returns None for every
\* failed request, non-JSON or non-object body, missing txid and malformed
\* vin or vout entry; get_spending_tx returns None on 404 and on failures
\* and the txid of a 200 answer only when spent is true.
C22_ApiNotFoundOnMalformed ==
    /\ (cn_pc = "done" /\ cn_call.fn = "api.get_transaction"
            /\ (cn_call.reply.kind # "ok" \/ MalformedEntry))
           => cn_value.tx = NoTx
    /\ ApiSpendOutcome

\* C22 as amended: get_transaction returns None for every failed request,
\* non-JSON or non-object body and missing txid; a malformed vin or vout
\* entry is left out and the transaction is returned with the entries that
\* can be used, in order; get_spending_tx as stated.
C22_ApiSkipsMalformedEntries ==
    /\ (cn_pc = "done" /\ cn_call.fn = "api.get_transaction")
           => /\ cn_call.reply.kind # "ok" => cn_value.tx = NoTx
              /\ cn_call.reply.kind = "ok"
                    => /\ cn_value.tx.txid = cn_call.arg
                       /\ Len(cn_value.tx.vin)
                             = Cardinality({k \in 1 .. Len(cn_call.reply.vin) :
                                   cn_call.reply.vin[k] \in {"good", "coinbase"}})
                       /\ Len(cn_value.tx.vout)
                             = Cardinality({k \in 1 .. Len(cn_call.reply.vout) :
                                   cn_call.reply.vout[k] \in {"good", "bad_n"}})
    /\ ApiSpendOutcome

C22_Witness ==
    /\ cn_pc = "done"
    /\ cn_call.fn = "api.get_transaction"
    /\ cn_call.reply.kind = "ok"
    /\ cn_call.reply.vin = <<"bad_vout", "good">>
    /\ cn_call.reply.vout = <<"no_value", "good">>
    /\ cn_value.tx.vin = <<[txid |-> "A", vout |-> 1]>>
    /\ cn_value.tx.vout = <<[value |-> 2, n |-> 1]>>

\* C23: between any two consecutive requests to the public API, whoever
\* sends them, at least the minimum interval passes.
C23_MinimumIntervalShared == api_gap >= ApiCallDelay

\* what analyze returns for these steps after a normal stop (ChainEnd or
\* NotPeelingShaped): the metrics of the steps and the steps
NormalResult(chain) == [metrics |-> _calculate_metrics(chain), chain |-> chain]

\* C24: when the walk ends because the current hop could not be resolved,
\* the result of analyze differs from the result of a normal stop after the
\* same steps: the caller can tell the partial result.
C24_UnresolvedVisible ==
    (an_pc = "returned" /\ an_end = "NoData") => result # NormalResult(chain_data)

\* C25: the uniformity score is 0 for every two-element sequence [0, x]
\* with x > 0 and 100 for every sequence of two or more equal positive
\* values.
C25_UniformityScoreEnds ==
    unif_pc = "done"
        => /\ \A x \in OutputValues \ {0} :
                 unif_input = <<0, x>>
                     => (~unif_result.raised /\ unif_result.score[1] = 0)
           /\ (Len(unif_input) >= 2
                  /\ \A k \in 1 .. Len(unif_input) :
                         unif_input[k] = unif_input[1] /\ unif_input[k] > 0)
                 => /\ ~unif_result.raised
                    /\ unif_result.score[1] = 100 * unif_result.score[2]

\* C26: for fewer than 2 values and for values that are all zero the
\* uniformity analysis returns the sentinel result and does not raise.
C26_UndefinedScoreIsSentinel ==
    (unif_pc = "done"
        /\ (Len(unif_input) < 2 \/ \A k \in 1 .. Len(unif_input) : unif_input[k] = 0))
        => (~unif_result.raised /\ unif_result.sentinel)

\* C27: calls running at a time on one Manager leave the source state as
\* calls running one after the other would: whenever every thread is between
\* two calls, public_api_steps counts every += 1 executed since it was last
\* reset (no increment is lost) and is 0 when the Manager is on the local
\* node; and no two threads are in a recovery attempt for the same due count
C27_SourceStateSerialized ==
    /\ Cardinality({t \in Threads : th_pc[t] \in {"try_probe", "try_reset"}}) <= 1
    /\ (\A t \in Threads : th_pc[t] \in Quiescent)
          => /\ public_api_steps = th_counted
             /\ (~using_public_api => public_api_steps = 0)

\* the spend lookups of trace_transaction_path are made at these positions
ElectrumNothing == {Call("electrs.get_spending_tx", o) : o \in {"unspent", "fail"}}

\* C28: spend lookups go to the graph store, then Electrum, then the public
\* API.  analyze asks Electrum for an outpoint only right after the graph
\* store lookup of that outpoint, and only when the store records no spender.
\* trace_transaction_path asks Electrum only while the Manager is not on the
\* public API; it asks the user only after Electrum returned nothing for the
\* outpoint, and asks the public API either because the Manager is on it
\* already or after the user's yes to that prompt, for the same outpoint.
C28_SpendTierOrder ==
    [][/\ \A k \in 1 .. Len(an_calls') :
             an_calls'[k][1] = "electrs.get_spending_tx"
                 => /\ k > 1
                    /\ an_calls'[k - 1] = <<"neo4j.find_spending_transaction",
                                            an_calls'[k][2], an_calls'[k][3]>>
                    /\ find_spending_transaction(an_calls'[k][2], an_calls'[k][3]) = None
       /\ (pc = "t_vout" /\ last_call'.name = "electrs.get_spending_tx")
             => ~using_public_api
       /\ (pc = "t_vout" /\ last_call'.name = "api.get_spending_tx")
             => using_public_api
       /\ (pc # "t_ask" /\ pc' = "t_ask")
             => /\ pc = "t_vout"
                /\ ~using_public_api
                /\ last_call' \in ElectrumNothing
                /\ UNCHANGED <<t_current, t_i>>
       /\ pc' = "t_api"
             => /\ pc = "t_ask"
                /\ last_call' = Call("ask", "yes")
                /\ authorized'
                /\ UNCHANGED <<t_current, t_i>>
       /\ (pc \notin {"idle", "done", "t_vout"} /\ last_call'.name = "api.get_spending_tx")
             => /\ pc = "t_api"
                /\ last_call = Call("ask", "yes")
                /\ UNCHANGED t_current
                /\ t_i' = t_i + 1
      ]_vars

\* the public API found the spender after Electrum had returned nothing and
\* the user had said yes, in a trace whose transaction came from the node
C28_Witness ==
    /\ pc = "t_vout"
    /\ op = "trace"
    /\ raw_src = "node"
    /\ last_call = Call("api.get_spending_tx", "spent")
    /\ public_api_steps = 1
    /\ authorized

\* C29: analyze resolves a transaction the graph store lacks through the
\* Manager's current source: while using_public_api holds, an iteration of
\* the walk sends no request to the local node, and an iteration that
\* resolved its transaction outside the graph store counts a step on the
\* public API.
C29_TracerUsesCurrentSource ==
    [][(an_pc = "walking" /\ using_public_api)
          => /\ ~HasCall(an_calls', "btc.get_transaction")
             /\ (an_used' \notin {"none", "neo4j"}
                    => public_api_steps' = public_api_steps + 1)
      ]_vars

\* the history get_spending_tx obtained
HistoryGot == IF el_history.kind = "history" THEN el_history.hist ELSE << >>

\* entry j of the history is not the creating transaction, the server
\* delivers its transaction, and that transaction has the outpoint as input
MatchAt(j) ==
    /\ HistoryGot[j] # el_list[1][1]
    /\ ServerReply("blockchain.transaction.get", HistoryGot[j]).kind = "result"
    /\ \E n \in 1 .. Len(ServerVin(HistoryGot[j])) :
           ServerVin(HistoryGot[j])[n] = el_list[1]

\* C30: get_spending_tx returns the hash of the first history entry, other
\* than the creating transaction, whose transaction has the outpoint as an
\* input, and None when there is no such entry; every candidate before the
\* returned one, and every candidate when None is returned, was requested,
\* so a candidate that could not be fetched did not end the search.
C30_FirstMatchInHistoryOrder ==
    (el_pc = "done" /\ el_mode = "fresh" /\ el_list # << >>)
        => LET matches == {j \in 1 .. Len(HistoryGot) : MatchAt(j)}
               first == CHOOSE j \in matches : \A i \in matches : j <= i
               last == IF matches = {} THEN Len(HistoryGot) ELSE first
           IN  /\ el_ret = IF matches = {} THEN None ELSE HistoryGot[first]
               /\ \A j \in 1 .. last :
                      HistoryGot[j] # el_list[1][1] => HistoryGot[j] \in el_fetched

\* the spender was found behind a candidate that spends nothing of the
\* outpoint and one that could not be fetched
C30_Witness ==
    /\ el_pc = "done"
    /\ el_mode = "fresh"
    /\ HistoryGot = <<"A", Reused, Undelivered, "B">>
    /\ el_fetched = {Reused, Undelivered, "B"}
    /\ el_ret = "B"

\* no request of the operation was sent twice
SentOnce == \A a, b \in 1 .. Len(el_log) : el_log[a] = el_log[b] => a = b

\* C31 as stated: within one operation of the ElectrsConnector every request
\* is sent at most once, and the connector contacts no source other than
\* the Electrum server.
C31_LeafSendsOnceToOwnSource ==
    /\ SentOnce
    /\ \A a \in 1 .. Len(el_log) : el_log[a].to = "electrum"

\* C31, amended: every request is sent at most once, a failed request is
\* not sent again, and the only other source contacted is the local node
\* the caller passed in, asked once per outpoint for the creating
\* transaction, before any Electrum request for that outpoint and never
\* after a failed one.
C31_LeafSendsOnceNodeFirst ==
    /\ SentOnce
    /\ \A a \in 1 .. Len(el_log) :
           el_log[a].to = "node"
               => /\ el_log[a].param = el_list[el_log[a].k][1]
                  /\ \A b \in 1 .. a - 1 : el_log[b].k < el_log[a].k

\* an operation went on after a request that failed
C31_Witness ==
    /\ el_pc = "done"
    /\ el_failed
    /\ Len(el_log) >= 4
    /\ el_log[1].to = "node"

\* C32: the ids of the requests of one ElectrsConnector increase strictly,
\* within an operation and from one operation to the next, and a request is
\* sent on a socket only when no earlier request on it awaits its reply.
C32_IdsIncreaseOneOutstanding ==
    [][/\ \A a, b \in 1 .. Len(el_ids') : a < b => el_ids'[a] < el_ids'[b]
       /\ \A a \in 1 .. Len(el_ids') : el_ids'[a] < request_id'
       /\ request_id' >= request_id
       /\ (Len(el_ids') > Len(el_ids) /\ el_pc # "candidate") => el_out = 0
       /\ (Len(el_ids') > Len(el_ids) /\ el_pc = "candidate" /\ el_mode = "batch")
             => el_out = 0
      ]_vars

\* C33: every PeelStep has peeled_percentage = peeled_value / input_value *
\* 100 when input_value > 0 and 0 when input_value = 0; an iteration that
\* appends a step with input_value = 0 keeps its peeled and change values
\* and goes on to the spend lookup of the change output.
C33_PercentageOfInput ==
    [][/\ \A k \in 1 .. Len(chain_data') :
             LET st == chain_data'[k] IN
             IF st.input_value > 0
             THEN st.peeled_percentage[1] * st.input_value
                      = st.peeled_value * 100 * st.peeled_percentage[2]
             ELSE st.peeled_percentage[1] = 0 /\ st.peeled_percentage[2] > 0
       /\ (Len(chain_data') > Len(chain_data)
              /\ chain_data'[Len(chain_data')].input_value = 0)
             => /\ chain_data'[Len(chain_data')].peeled_value
                       <= chain_data'[Len(chain_data')].change_value
                /\ chain_data'[Len(chain_data')].change_value > 0
                /\ HasCall(an_calls', "neo4j.find_spending_transaction")
                /\ (current_hash' # None => an_pc' = "walking")
      ]_vars

\* the walk went on after a step whose inputs had no value
C33_Witness ==
    /\ Len(chain_data) >= 2
    /\ chain_data[1].input_value = 0
    /\ chain_data[1].peeled_value > 0
    /\ chain_data[2].input_value > 0

\* C34: whenever public_api_steps is positive the Manager is on the public
\* API; the counter grows only while using_public_api holds and every
\* return to the local node resets it.
C34_CounterOnlyWhileDegraded ==
    [][/\ public_api_steps' > 0 => using_public_api'
       /\ public_api_steps' > public_api_steps => using_public_api'
       /\ (using_public_api /\ ~using_public_api') => public_api_steps' = 0
      ]_vars

\* the Manager is back on the node after counted steps on the public API
C34_Witness ==
    /\ ~using_public_api
    /\ public_api_steps = 0
    /\ last_call = Call("rpc.getblockchaininfo", "ok")

\* C35: for a transaction read from the graph store, the outpoint whose
\* spender analyze looks up is the change output's own outpoint: the index
\* of the lookup is the index of the output that carries the step's change
\* value (stated for outputs of different values, where the change output
\* is the only one with that value).
C35_ChangeOutpointLookedUp ==
    [][(/\ an_pc = "walking"
        /\ an_used' = "neo4j"
        /\ Len(chain_data') > Len(chain_data)
        /\ vouts[an_hop'][1] # vouts[an_hop'][2])
          => \A k \in 1 .. Len(an_calls') :
                an_calls'[k][1] \in SpendLookups
                    => /\ an_calls'[k][2] = an_hop'
                       /\ an_calls'[k][3] \in OutIdx(an_hop')
                       /\ vouts[an_hop'][an_calls'[k][3] + 1]
                              = chain_data'[Len(chain_data')].change_value
      ]_vars

\* C36: a step is appended with peeled_value <= change_value, the pair
\* being the two outputs in ascending order of value; a transaction with an
\* output that has no value ends the walk and appends no step.
C36_PeeledNotAboveChange ==
    peel_pc = "done"
        => /\ peel_result.appended
                 => /\ peel_result.step.peeled_value <= peel_result.step.change_value
                    /\ Len(peel_input) = 2
                    /\ \A k \in 1 .. 2 :
                           peel_input[k] \in {peel_result.step.peeled_value,
                                              peel_result.step.change_value}
           /\ (\E k \in 1 .. Len(peel_input) : peel_input[k] = Missing)
                 => (~peel_result.appended /\ peel_result.ends)

\* the larger output came first and the step has the pair in order
C36_Witness ==
    /\ peel_pc = "done"
    /\ peel_input = <<5, 2>>
    /\ peel_result.appended
    /\ peel_result.step.peeled_value = 2
    /\ peel_result.step.change_value = 5

\* the position of the first output of highest value
FirstHighest(vs) ==
    CHOOSE i \in 1 .. Len(vs) :
        /\ \A j \in 1 .. Len(vs) : vs[j] <= vs[i]
        /\ \A j \in 1 .. i - 1 : vs[j] < vs[i]

\* C37: at the end of the loop over the outputs the trace goes on with the
\* spender of the first output of highest value or ends; it ends when that
\* output has no spender, whatever the other outputs, and never goes on
\* with the spender of another output.
C37_FollowsHighestOutput ==
    [][(pc = "t_vout" /\ t_i >= Len(vouts[t_current]))
          => LET by == SpenderOf(t_current, FirstHighest(vouts[t_current]) - 1)
             IN  /\ t_current' \in {None, by}
                 /\ by = None => pc' = "done"
      ]_vars

\* the loop ended without a next transaction at the unspent higher output,
\* after the spender of the lower first output had been found
C37_Witness ==
    /\ pc = "t_vout"
    /\ t_current = "A"
    /\ t_i = 2
    /\ vouts["A"] = <<4, 12>>
    /\ spender["A"] = <<"B", None>>
    /\ last_call.outcome = "unspent"
    /\ t_next = None

\* the store operation returns to its caller in this step
StoreReturned ==
    /\ pc \in {"s_fetch", "s_ask", "s_api", "s_height", "s_input", "s_in_ask",
               "s_in_api", "s_write"}
    /\ pc' \in {"done", "t_stored"}

\* input o of a transaction names an output that exists
InputExists(o) == o[1] \in TxIds /\ o[2] \in OutIdx(o[1])

\* C38: the graph store is written only when the transaction body was
\* fetched and every input went through with an existing source output; an
\* operation that ends without the body, on a failed fetch of an input's
\* source or with an input whose source output does not exist returns no
\* result and leaves the graph store as it was.
C38_NoPartialStore ==
    [][/\ (neoVars' # neoVars \/ last_call'.name = "neo4j.store_transaction_info")
          => /\ raw_src \in {"node", "api"}
             /\ in_k = Len(InputList(tx_hash, raw_src))
             /\ \A k \in 1 .. in_k : InputExists(InputList(tx_hash, raw_src)[k])
       /\ (/\ StoreReturned
           /\ \/ raw_src' = "none"
              \/ last_call'.outcome \in {"fail", "notfound", "no"}
              \/ \E k \in 1 .. Len(InputList(tx_hash, raw_src')) :
                     ~InputExists(InputList(tx_hash, raw_src')[k]))
          => /\ ret' = None
             /\ written' = None
             /\ UNCHANGED neoVars
      ]_vars

\* B was fetched, the source of its last input was fetched too, and the
\* operation ended without a result and without a write because the input
\* names an output its source does not have
C38_Witness ==
    /\ pc = "done"
    /\ op = "store"
    /\ tx_hash = "B"
    /\ raw_src = "node"
    /\ in_k = Len(vin["B"])
    /\ vin["B"][in_k] = BadIndex
    /\ last_call = Call("rpc.getrawtransaction", "ok")
    /\ ret = None
    /\ written = None
    /\ neo_tx = {}

\* the spender lookups of a trace
TraceLookups == {"electrs.get_spending_tx", "api.get_spending_tx"}

\* C39: in a trace with max_steps = k >= 1 the store call made from the loop
\* is the step-th one, step starting at 1 and growing by one per
\* transaction followed, and is made only while step <= k; no spender lookup
\* is made at step k; and the trace ends, whatever the graph.
C39_AtMostKTransactions ==
    /\ [][(op = "trace" /\ t_max >= 1)
            => /\ (pc = "t_loop" /\ pc' = "s_fetch")
                    => t_step' = t_step /\ t_step <= t_max
               /\ pc' = "t_loop" => t_step' = t_step + 1
               /\ pc' \notin {"t_loop", "idle"} => t_step' = t_step
               /\ last_call'.name \in TraceLookups => t_step < t_max
          ]_vars
    /\ [][op' = "trace" /\ op # "trace" => t_step' = 1]_vars
    /\ (op = "trace" /\ t_max >= 1) ~> (pc = "done")

\* a trace of two steps through a spend cycle ended at B, the second
\* transaction, whose higher output is spent by A
C39_Witness ==
    /\ pc = "done"
    /\ op = "trace"
    /\ t_max = 2
    /\ t_step = 2
    /\ t_current = "B"
    /\ ret = "raw_tx"
    /\ SpenderOf("B", 1) = "A"
    /\ \E i \in OutIdx("A") : SpenderOf("A", i) = "B"

\* C40: with a connector constructed without a connection the Manager, once
\* on the public API, stays on it and never probes the node, whether or not
\* the node would answer; and whatever the connector, a step taken on the
\* public API with the counter below 5 neither probes the node nor leaves
\* the public API.
C40_RecoveryNeedsConnection ==
    [][/\ (~rpc_connection /\ using_public_api)
          => /\ using_public_api'
             /\ last_call'.name # "rpc.getblockchaininfo"
       /\ (using_public_api /\ public_api_steps < RetrySteps)
          => /\ using_public_api'
             /\ last_call'.name \notin {"rpc.getblockchaininfo", "no_connection"}
      ]_vars

\* the counter reached 5 on a Manager whose connector has no connection: the
\* recovery step found no connection object and the Manager is still on the
\* public API
C40_Witness ==
    /\ ~rpc_connection
    /\ using_public_api
    /\ public_api_steps = 0
    /\ last_call = Call("no_connection", "none")

=============================================================================
